---- MODULE Spec2Model ----
(***************************************************************************)
(* Email Inspector: the parser-target registry of class EmailInspector.    *)
(*                                                                         *)
(* Text is a sequence of one-character strings; offsets are 0-based and    *)
(* half-open as in the JavaScript source.  Control characters, which have  *)
(* no TLA+ string escape, are the named tokens "NUL", "SOH" and "DEL".     *)
(* Confidence is kept in tenths (5 is 0.5, 10 is 1.0).                     *)
(* A nullable JavaScript value is the empty sequence (null / undefined)    *)
(* or a one-element sequence holding the value.                            *)
(***************************************************************************)
EXTENDS Integers, Sequences, FiniteSets, TLC

Null == <<>>
Some(x) == <<x>>
IsNull(v) == v = <<>>
Val(v) == v[1]

Min2(a, b) == IF a <= b THEN a ELSE b
Max2(a, b) == IF a >= b THEN a ELSE b

\* ------------------------------------------------------------------------
\* Characters

Upper == {"A", "B", "C", "D", "E", "F", "G", "H", "I", "J", "K", "L", "M",
          "N", "O", "P", "Q", "R", "S", "T", "U", "V", "W", "X", "Y", "Z"}
Lower == {"a", "b", "c", "d", "e", "f", "g", "h", "i", "j", "k", "l", "m",
          "n", "o", "p", "q", "r", "s", "t", "u", "v", "w", "x", "y", "z"}
Digit == {"0", "1", "2", "3", "4", "5", "6", "7", "8", "9"}
\* \w of a JavaScript regular expression
WordChar == Upper \cup Lower \cup Digit \cup {"_"}
\* what String.prototype.trim removes (of the characters modelled); "NBSP"
\* is the no-break space U+00A0
WhiteSpace == {" ", "\t", "\n", "\r", "NBSP"}
\* the character codes of the control characters modelled, named by their
\* ASCII abbreviations where TLA+ has no escape for them; every other
\* character modelled is a printable character
ControlCode ==
    "NUL" :> 0 @@ "SOH" :> 1 @@ "BS" :> 8 @@ "\t" :> 9 @@ "\n" :> 10 @@ "VT" :> 11
    @@ "FF" :> 12 @@ "\r" :> 13 @@ "SO" :> 14 @@ "US" :> 31 @@ "DEL" :> 127

\* the characters with a code in `codes`
CharsCoded(codes) == {c \in DOMAIN ControlCode : ControlCode[c] \in codes}

\* /\x00/
NulClass == CharsCoded({0})

\* the class also takes tab, newline and carriage return
ControlClass_AllBelowSpace == CharsCoded((1..31) \cup {127})

\* /[\x01-\x08\x0B\x0C\x0E-\x1F\x7F]/
ControlClass == CharsCoded((1..8) \cup {11, 12} \cup (14..31) \cup {127})

LowerOf == "A" :> "a" @@ "B" :> "b" @@ "C" :> "c" @@ "D" :> "d" @@ "E" :> "e"
        @@ "F" :> "f" @@ "G" :> "g" @@ "H" :> "h" @@ "I" :> "i" @@ "J" :> "j"
        @@ "K" :> "k" @@ "L" :> "l" @@ "M" :> "m" @@ "N" :> "n" @@ "O" :> "o"
        @@ "P" :> "p" @@ "Q" :> "q" @@ "R" :> "r" @@ "S" :> "s" @@ "T" :> "t"
        @@ "U" :> "u" @@ "V" :> "v" @@ "W" :> "w" @@ "X" :> "x" @@ "Y" :> "y"
        @@ "Z" :> "z"

\* String.prototype.toLowerCase
toLowerCase(s) == [k \in 1..Len(s) |-> IF s[k] \in Upper THEN LowerOf[s[k]] ELSE s[k]]

\* String.prototype.substring(a, b): clamps both arguments to [0, length]
\* and swaps them when a > b
substring(s, a, b) ==
    LET ca == Max2(0, Min2(a, Len(s)))
        cb == Max2(0, Min2(b, Len(s)))
    IN SubSeq(s, Min2(ca, cb) + 1, Max2(ca, cb))

RECURSIVE trimStart(_)
trimStart(s) ==
    IF s # <<>> /\ Head(s) \in WhiteSpace THEN trimStart(Tail(s)) ELSE s

RECURSIVE trimEnd(_)
trimEnd(s) ==
    IF s # <<>> /\ s[Len(s)] \in WhiteSpace
    THEN trimEnd(SubSeq(s, 1, Len(s) - 1)) ELSE s

\* String.prototype.trim
trim(s) == trimEnd(trimStart(s))

\* the literal w occurs in s at offset i
HasAt(s, w, i) ==
    /\ i >= 0
    /\ i + Len(w) <= Len(s)
    /\ \A k \in 1..Len(w) : s[i + k] = w[k]

\* String.prototype.includes
includes(s, w) == \E i \in 0..Len(s) : HasAt(s, w, i)

\* ------------------------------------------------------------------------
\* Regular expressions: a pattern is a sequence of elements, matched greedily
\* with backtracking as the JavaScript engine does.
\*   kind "b"   : \b
\*   kind "lit" : (?:w1|w2|...), alternatives tried in order
\*   kind "cls" : a character class repeated min..max times (max -1: no limit)

Unbounded == 0 - 1
NoMatch == 0 - 1

B == [kind |-> "b", words |-> <<>>, set |-> {}, neg |-> FALSE, min |-> 0, max |-> 0]
Lit(ws) == [kind |-> "lit", words |-> ws, set |-> {}, neg |-> FALSE, min |-> 0, max |-> 0]
Cls(S, lo, hi) == [kind |-> "cls", words |-> <<>>, set |-> S, neg |-> FALSE, min |-> lo, max |-> hi]
NotCls(S, lo, hi) == [kind |-> "cls", words |-> <<>>, set |-> S, neg |-> TRUE, min |-> lo, max |-> hi]

InClass(c, e) == (c \in e.set) # e.neg

IsWordAt(s, i) == i >= 0 /\ i < Len(s) /\ s[i + 1] \in WordChar

\* \b holds at offset i
WordBoundary(s, i) == IsWordAt(s, i - 1) # IsWordAt(s, i)

\* number of characters of class e from offset i on, at most lim (-1: no limit)
RunLen(s, i, e, lim) ==
    LET most == IF lim = Unbounded \/ lim > Len(s) - i THEN Len(s) - i ELSE lim
        InRun(n) == \A j \in 1..n : InClass(s[i + j], e)
    IN IF most <= 0 THEN 0
       ELSE CHOOSE n \in 0..most : InRun(n) /\ (n = most \/ ~InClass(s[i + n + 1], e))

\* end offset of the match of elements k.. of pattern p at offset i, or NoMatch
RECURSIVE MatchFrom(_, _, _, _)
RECURSIVE TryWords(_, _, _, _, _)
RECURSIVE TryCount(_, _, _, _, _)

TryWords(p, k, s, i, w) ==
    IF w > Len(p[k].words) THEN NoMatch
    ELSE LET word == p[k].words[w]
             rest == IF HasAt(s, word, i) THEN MatchFrom(p, k + 1, s, i + Len(word))
                     ELSE NoMatch
         IN IF rest # NoMatch THEN rest ELSE TryWords(p, k, s, i, w + 1)

TryCount(p, k, s, i, n) ==
    IF n < p[k].min THEN NoMatch
    ELSE LET rest == MatchFrom(p, k + 1, s, i + n)
         IN IF rest # NoMatch THEN rest ELSE TryCount(p, k, s, i, n - 1)

MatchFrom(p, k, s, i) ==
    IF k > Len(p) THEN i
    ELSE IF p[k].kind = "b"
         THEN IF WordBoundary(s, i) THEN MatchFrom(p, k + 1, s, i + 0) ELSE NoMatch
    ELSE IF p[k].kind = "lit" THEN TryWords(p, k, s, i, 1)
    ELSE TryCount(p, k, s, i, RunLen(s, i, p[k], p[k].max))

MatchAt(p, s, i) == MatchFrom(p, 1, s, i)

\* String.prototype.matchAll with a /g pattern: the matches from offset
\* `from` on, left to right, each search resuming at the end of the previous
\* match (one further after an empty match)
RECURSIVE matchAll(_, _, _)
matchAll(p, s, from) ==
    LET found == {i \in from..Len(s) : MatchAt(p, s, i) # NoMatch}
    IN IF found = {} THEN <<>>
       ELSE LET index == CHOOSE i \in found : \A o \in found : i <= o
                e == MatchAt(p, s, index)
            IN <<[index |-> index, end |-> e]>>
               \o matchAll(p, s, IF e = index THEN index + 1 ELSE e)

\* String.prototype.match with a pattern without /g, used as a truth value
matches(p, s) == \E i \in 0..Len(s) : MatchAt(p, s, i) # NoMatch

\* ------------------------------------------------------------------------
\* The pattern catalog (initializeAutoTargetDetection)

NotTerminator == NotCls({".", "!", "?", "\n"}, 0, Unbounded)

\* /\bSE[A-Z]\d{3,4}\b/
reSiteCode == <<B, Lit(<< <<"S", "E">> >>), Cls(Upper, 1, 1), Cls(Digit, 3, 4), B>>
\* /\b[A-Z]{2,3}\d{1,4}\b/
reGenericCode == <<B, Cls(Upper, 2, 3), Cls(Digit, 1, 4), B>>
\* /\b\d{6,10}\b/
reNumericId == <<B, Cls(Digit, 6, 10), B>>
\* /\bV\d{7,10}\b/
reVId == <<B, Lit(<< <<"V">> >>), Cls(Digit, 7, 10), B>>
\* /\bP\d{5,9}\b/
rePId == <<B, Lit(<< <<"P">> >>), Cls(Digit, 5, 9), B>>

wServiceCall == <<"S", "e", "r", "v", "i", "c", "e", " ", "C", "a", "l", "l">>
wAlarm == <<"A", "l", "a", "r", "m">>
wDeviceOffline == <<"D", "e", "v", "i", "c", "e", " ", "O", "f", "f", "l", "i", "n", "e">>
wLineError == <<"L", "i", "n", "e", " ", "E", "r", "r", "o", "r">>
wAlarmActive == <<"A", "l", "a", "r", "m", " ", "A", "c", "t", "i", "v", "e">>
wMaintenance == <<"M", "a", "i", "n", "t", "e", "n", "a", "n", "c", "e">>
wInputOutput == <<"I", "n", "p", "u", "t", " ", "O", "u", "t", "p", "u", "t">>
wPowerSupply == <<"P", "o", "w", "e", "r", " ", "S", "u", "p", "p", "l", "y">>
wReader == <<"R", "e", "a", "d", "e", "r">>
wContact == <<"C", "o", "n", "t", "a", "c", "t">>

\* /\b(?:Service Call|Alarm)\b[^.!?\n]*/
reJobName1 == <<B, Lit(<<wServiceCall, wAlarm>>), B, NotTerminator>>
\* /\b(?:Device Offline|Line Error|Alarm Active)\b[^.!?\n]*/
reJobName2 == <<B, Lit(<<wDeviceOffline, wLineError, wAlarmActive>>), B, NotTerminator>>
\* /\b(?:Device Offline|Line Error|Alarm Active|Maintenance)\b[^.!?\n]*/
reTrouble1 == <<B, Lit(<<wDeviceOffline, wLineError, wAlarmActive, wMaintenance>>), B, NotTerminator>>
\* /\b(?:Input Output|Power Supply|Reader|Contact)\b[^.!?\n]*/
reTrouble2 == <<B, Lit(<<wInputOutput, wPowerSupply, wReader, wContact>>), B, NotTerminator>>

\* this.patternRules, in the insertion order Object.entries walks it
patternRules ==
    << [fieldType |-> "building_code", patterns |-> <<reSiteCode, reGenericCode>>],
       [fieldType |-> "device_id", patterns |-> <<reNumericId, reVId, rePId>>],
       [fieldType |-> "job_name", patterns |-> <<reJobName1, reJobName2>>],
       [fieldType |-> "job_trouble_description", patterns |-> <<reTrouble1, reTrouble2>>] >>

\* ------------------------------------------------------------------------
\* ParserTarget

ParserTarget(text, startPos, endPos, confidence, fieldType, context) ==
    [text |-> text, startPos |-> startPos, endPos |-> endPos,
     confidence |-> confidence, fieldType |-> fieldType, context |-> context,
     overlayDiv |-> Null]

overlaps(a, b) == ~(a.endPos <= b.startPos \/ b.endPos <= a.startPos)

\* ------------------------------------------------------------------------
\* calculateConfidence, in tenths: the score of the method with its sums
\* taken exactly, which is the score to the nearest tenth

BaseConfidence == 5
MaxConfidence == 10
ConfidenceWindow == 100

wServiceCallLc == <<"s", "e", "r", "v", "i", "c", "e", " ", "c", "a", "l", "l">>
wDeviceOfflineLc == <<"d", "e", "v", "i", "c", "e", " ", "o", "f", "f", "l", "i", "n", "e">>
wAlarmActiveLc == <<"a", "l", "a", "r", "m", " ", "a", "c", "t", "i", "v", "e">>
wSiteLc == <<"s", "i", "t", "e">>
wBuildingLc == <<"b", "u", "i", "l", "d", "i", "n", "g">>

\* /^\d+$/
AllDigits(text) == Len(text) >= 1 /\ \A k \in 1..Len(text) : text[k] \in Digit
\* /^[VP]\d+$/
PrefixedDigits(text) ==
    /\ Len(text) >= 2
    /\ text[1] \in {"V", "P"}
    /\ \A k \in 2..Len(text) : text[k] \in Digit

Bonus(cond, tenths) == IF cond THEN tenths ELSE 0

TypeBonus(fieldType, text) ==
    IF fieldType = "building_code"
    THEN Bonus(matches(reSiteCode, text), 3)
         + Bonus(Len(text) >= 5 /\ Len(text) <= 8, 1)
    ELSE IF fieldType = "device_id"
    THEN Bonus(AllDigits(text), 2)
         + Bonus(PrefixedDigits(text), 3)
         + Bonus(Len(text) >= 6 /\ Len(text) <= 10, 2)
    ELSE 0

ContextBonus(fieldType, text, position, content) ==
    LET beforeText == substring(content, Max2(0, position - ConfidenceWindow), position)
        afterText == substring(content, position + Len(text),
                               position + Len(text) + ConfidenceWindow)
        contextText == toLowerCase(beforeText \o afterText)
    IN Bonus(fieldType = "job_name" /\ includes(contextText, wServiceCallLc), 2)
       + Bonus(fieldType = "job_trouble_description"
               /\ (includes(contextText, wDeviceOfflineLc)
                   \/ includes(contextText, wAlarmActiveLc)), 2)
       + Bonus(fieldType = "building_code"
               /\ (includes(contextText, wSiteLc) \/ includes(contextText, wBuildingLc)), 1)

\* position / content.length > 0.2, for a non-empty content
PositionBonus(position, content) == Bonus(5 * position > Len(content), 1)

\* the score starts below the threshold
calculateConfidence_LowBase(fieldType, text, position, content) ==
    Min2(MaxConfidence,
         (BaseConfidence - 1) + TypeBonus(fieldType, text)
         + ContextBonus(fieldType, text, position, content)
         + PositionBonus(position, content))

calculateConfidence(fieldType, text, position, content) ==
    Min2(MaxConfidence,
         BaseConfidence + TypeBonus(fieldType, text)
         + ContextBonus(fieldType, text, position, content)
         + PositionBonus(position, content))

\* ------------------------------------------------------------------------
\* calculateConfidence, in Numbers
\*
\* The score is a JavaScript Number (IEEE 754 binary64) and every += of the
\* method rounds to the nearest Number, ties to the even significand. A
\* Number from 0.5 to 2 is written here as tenths and err, for the value
\*     tenths / 10 + err / (10 * 2^54)
\* so that err = 0 means a whole number of tenths exactly, and the Numbers are
\* the values whose numerator tenths * 2^54 + err is a multiple of 20 below
\* 1.0 (they are 2^-53 apart) and of 40 from 1.0 on (2^-52 apart).

Number(tenths, err) == [tenths |-> tenths, err |-> err]

\* 2^54 modulo 80, which is all of the numerator that rounding looks at
TwoTo54 == 64

\* the distance of two neighbouring Numbers at the value tenths, err
Spacing(tenths, err) == IF tenths < 10 \/ (tenths = 10 /\ err < 0) THEN 20 ELSE 40

\* the Number nearest the value tenths, err
Nearest(tenths, err) ==
    LET q == Spacing(tenths, err)
        r == (TwoTo54 * tenths + err) % q
        down == err - r
        up == err + (q - r)
    IN IF 2 * r < q THEN Number(tenths, down)
       ELSE IF 2 * r > q THEN Number(tenths, up)
       ELSE IF (TwoTo54 * tenths + down) % (2 * q) = 0 THEN Number(tenths, down)
       ELSE Number(tenths, up)

\* the literals of the method: 0.1 is 3602879701896397 / 2^55, 0.2 twice
\* that, 0.3 is 5404319552844595 / 2^54, and 0.5 and 1.0 are exact
Literal(tenths) ==
    Number(tenths, CASE tenths = 1 -> 1
                     [] tenths = 2 -> 2
                     [] tenths = 3 -> -2
                     [] OTHER -> 0)

\* confidence += 0.1, 0.2 or 0.3 when the condition holds
AddIf(cond, confidence, tenths) ==
    IF cond
    THEN Nearest(confidence.tenths + tenths, confidence.err + Literal(tenths).err)
    ELSE confidence

\* Math.min(1.0, confidence)
MinOne(confidence) ==
    IF confidence.tenths > 10 \/ (confidence.tenths = 10 /\ confidence.err > 0)
    THEN Literal(10)
    ELSE confidence

\* lines 109-142, the additions in the order of the method
calculateConfidenceNumber(fieldType, text, position, content) ==
    LET beforeText == substring(content, Max2(0, position - ConfidenceWindow), position)
        afterText == substring(content, position + Len(text),
                               position + Len(text) + ConfidenceWindow)
        contextText == toLowerCase(beforeText \o afterText)
        c0 == Literal(BaseConfidence)
        c1 == AddIf(fieldType = "building_code" /\ matches(reSiteCode, text), c0, 3)
        c2 == AddIf(fieldType = "building_code" /\ Len(text) >= 5 /\ Len(text) <= 8, c1, 1)
        c3 == AddIf(fieldType = "device_id" /\ AllDigits(text), c2, 2)
        c4 == AddIf(fieldType = "device_id" /\ PrefixedDigits(text), c3, 3)
        c5 == AddIf(fieldType = "device_id" /\ Len(text) >= 6 /\ Len(text) <= 10, c4, 2)
        c6 == AddIf(fieldType = "job_name" /\ includes(contextText, wServiceCallLc), c5, 2)
        c7 == AddIf(fieldType = "job_trouble_description"
                    /\ (includes(contextText, wDeviceOfflineLc)
                        \/ includes(contextText, wAlarmActiveLc)), c6, 2)
        c8 == AddIf(fieldType = "building_code"
                    /\ (includes(contextText, wSiteLc) \/ includes(contextText, wBuildingLc)),
                    c7, 1)
        c9 == AddIf(5 * position > Len(content), c8, 1)
    IN MinOne(c9)

\* ------------------------------------------------------------------------
\* getTargetContext

ContextWindow == 50

CountNewlines(s) == Cardinality({k \in 1..Len(s) : s[k] = "\n"})

getTargetContext(content, startPos, endPos) ==
    [before |-> trim(substring(content, Max2(0, startPos - ContextWindow), startPos)),
     after |-> trim(substring(content, endPos, Min2(Len(content), endPos + ContextWindow))),
     line |-> CountNewlines(substring(content, 0, startPos)) + 1]

\* ------------------------------------------------------------------------
\* convertContentToDisplayableText, for the string a .eml file is read as:
\* content.replace(/\x00/g, '').replace(/[\x01-\x08\x0B\x0C\x0E-\x1F\x7F]/g, '')

RemoveAll(s, S) == SelectSeq(s, LAMBDA c : c \notin S)

convertContentToDisplayableText(content) ==
    RemoveAll(RemoveAll(content, NulClass), ControlClass)

\* ------------------------------------------------------------------------
\* Documents

\* the files a session can load (the text FileReader.readAsText returns)
FileNumericThenSite ==
    <<"1", "2", "3", "4", "5", "6", " ", "S", "E", "A", "1", "2", "4">>
FileWithControlChars ==
    <<"x", "SOH", " ", "S", "E", "A", "1", "2", "4", "NUL">>
FileNoMatch == <<"P", "3">>
Files == {FileNumericThenSite, FileWithControlChars, FileNoMatch}

\* the pieces generated documents are made of
Fragments ==
    { <<"S", "E", "A", "1", "2", "4">>,
      <<"1", "2", "3", "4", "5", "6">>,
      <<"P", "1", "2", "3", "4", "5">>,
      <<"A", "l", "a", "r", "m", " ", "A", "c", "t", "i", "v", "e">>,
      <<"R", "e", "a", "d", "e", "r">>,
      <<"s", "i", "t", "e">>,
      <<" ">>,
      <<".">> }

\* most pieces in a generated document
MaxFragments == 3

RECURSIVE FilesOfAtMost(_)
FilesOfAtMost(n) ==
    IF n = 0 THEN {<<>>}
    ELSE LET shorter == FilesOfAtMost(n - 1)
         IN shorter \cup {d \o f : d \in shorter, f \in Fragments}

GeneratedFiles == FilesOfAtMost(MaxFragments)

\* a subject line of a service call, and a line of two troubles
FileServiceCall ==
    <<"S", "e", "r", "v", "i", "c", "e", " ", "C", "a", "l", "l", " ", "B", "-", "8",
      "0", "2", "6", "4", "1", " ", "-", " ", "S", "E", "A", "1", "2", "4", " ", "-",
      " ", "A", "l", "a", "r", "m", " ", "A", "c", "t", "i", "v", "e", " ", "-", " ",
      "P", "3", " ", "-", " ", "R", "e", "a", "d", "e", "r", " ", "-", " ", "P", "2",
      "9", "6", "5", "6", "3", "9", "8", "3", "-", "1", "3">>

FileTrouble ==
    <<"D", "e", "v", "i", "c", "e", " ", "O", "f", "f", "l", "i", "n", "e", " ", "n",
      "o", "w", ".", " ", "L", "i", "n", "e", " ", "E", "r", "r", "o", "r", " ", "o",
      "n", " ", "p", "a", "n", "e", "l">>

\* the text cut short after any number of characters
Heads(text) == {SubSeq(text, 1, n) : n \in 0..Len(text)}

ScenarioFiles == Heads(FileServiceCall) \cup Heads(FileTrouble)

\* the texts a session can hold in rawContent
LoadableTexts == {convertContentToDisplayableText(f) : f \in Files \cup ScenarioFiles}

\* ------------------------------------------------------------------------
\* convertContentToDisplayableText for an ArrayBuffer, and convertContentToHex
\*
\* A buffer is a sequence of bytes 0..255, a decoded text a sequence of
\* character codes (UTF-16 code units).

\* the characters with the codes 32..126, in order (the grave accent, for
\* which TLA+ has no string, by its name)
AsciiChars ==
    <<" ", "!", "\"", "#", "$", "%", "&", "'", "(", ")", "*", "+", ",", "-", ".", "/",
      "0", "1", "2", "3", "4", "5", "6", "7", "8", "9", ":", ";", "<", "=", ">", "?",
      "@", "A", "B", "C", "D", "E", "F", "G", "H", "I", "J", "K", "L", "M", "N", "O",
      "P", "Q", "R", "S", "T", "U", "V", "W", "X", "Y", "Z", "[", "\\", "]", "^", "_",
      "GRAVE", "a", "b", "c", "d", "e", "f", "g", "h", "i", "j", "k", "l", "m", "n", "o",
      "p", "q", "r", "s", "t", "u", "v", "w", "x", "y", "z", "{", "|", "}", "~">>

\* the character with a code: a control character by its name, a printable
\* ASCII character as it is, any other as "U+" and its code
CharOfCode(code) ==
    IF \E c \in DOMAIN ControlCode : ControlCode[c] = code
    THEN CHOOSE c \in DOMAIN ControlCode : ControlCode[c] = code
    ELSE IF code >= 32 /\ code <= 126 THEN AsciiChars[code - 31]
    ELSE "U+" \o ToString(code)

TextOfCodes(codes) == [k \in 1..Len(codes) |-> CharOfCode(codes[k])]

\* U+FFFD, which a decoder that is not fatal puts for what it cannot decode
ReplacementChar == 65533

\* new TextDecoder('utf-8', {fatal: false}).decode, for buffers whose bytes
\* from 0x80 on are 0xFF, a byte no UTF-8 sequence holds
DecodeUtf8(bytes) ==
    [k \in 1..Len(bytes) |-> IF bytes[k] < 128 THEN bytes[k] ELSE ReplacementChar]

\* the labels iso-8859-1 and windows-1252 both name the decoder
\* windows-1252, which gives the bytes outside 0x80..0x9F their own code
DecodeWindows1252(bytes) == bytes

\* utf-16le and utf-16be: a code unit of every two bytes, U+FFFD for a byte
\* left over (the buffers hold no byte order mark and no surrogate)
DecodeUtf16(bytes, littleEndian) ==
    [k \in 1..((Len(bytes) + 1) \div 2) |->
        IF 2 * k > Len(bytes) THEN ReplacementChar
        ELSE IF littleEndian THEN bytes[2 * k - 1] + 256 * bytes[2 * k]
        ELSE 256 * bytes[2 * k - 1] + bytes[2 * k]]

\* line 1791
encodings == <<"utf-8", "iso-8859-1", "windows-1252", "utf-16le", "utf-16be">>

\* lines 1795-1796
decode(encoding, bytes) ==
    IF encoding = "utf-8" THEN DecodeUtf8(bytes)
    ELSE IF encoding \in {"iso-8859-1", "windows-1252"} THEN DecodeWindows1252(bytes)
    ELSE DecodeUtf16(bytes, encoding = "utf-16le")

\* line 1799: decoded.replace(/[\x00-\x1F\x7F]/g, '').length
printableChars(decoded) ==
    Cardinality({k \in 1..Len(decoded) : decoded[k] \notin (0..31) \cup {127}})

\* line 1800: printableChars / decoded.length > 0.3 (0 / 0 is NaN, and
\* NaN > 0.3 is false)
LooksValid(decoded) == 10 * printableChars(decoded) > 3 * Len(decoded)

HexDigits ==
    <<"0", "1", "2", "3", "4", "5", "6", "7", "8", "9", "a", "b", "c", "d", "e", "f">>

\* Number.prototype.toString(radix)
RECURSIVE toString(_, _)
toString(n, radix) ==
    IF n < radix THEN <<HexDigits[n + 1]>>
    ELSE toString(n \div radix, radix) \o <<HexDigits[(n % radix) + 1]>>

\* String.prototype.padStart(width, '0')
padStart(s, width) == [k \in 1..(width - Len(s)) |-> "0"] \o s

charsPerLine == 16

\* lines 1836-1844, joined by ' '
RECURSIVE hexRow(_, _)
hexRow(chunk, i) ==
    IF i > charsPerLine THEN <<>>
    ELSE (IF i > 1 THEN <<" ">> ELSE <<>>)
         \o (IF i <= Len(chunk) THEN padStart(toString(chunk[i], 16), 2) ELSE <<" ", " ">>)
         \o hexRow(chunk, i + 1)

\* lines 1846-1855
charRow(chunk) ==
    [i \in 1..charsPerLine |->
        IF i <= Len(chunk)
        THEN IF chunk[i] >= 32 /\ chunk[i] <= 126 THEN CharOfCode(chunk[i]) ELSE "."
        ELSE " "]

\* lines 1832-1858, joined by '\n'
RECURSIVE hexLines(_, _)
hexLines(view, offset) ==
    IF offset >= Len(view) THEN <<>>
    ELSE LET chunk == SubSeq(view, offset + 1, Min2(Len(view), offset + charsPerLine))
         IN (IF offset > 0 THEN <<"\n">> ELSE <<>>)
            \o padStart(toString(offset, 16), 8) \o <<":", " ">> \o hexRow(chunk, 1)
            \o <<" ", " ", "|">> \o charRow(chunk) \o <<"|">>
            \o hexLines(view, offset + charsPerLine)

wHexadecimalDumpOf ==
    <<"H", "e", "x", "a", "d", "e", "c", "i", "m", "a", "l", " ", "d", "u", "m", "p",
      " ", "o", "f", " ">>
wBytes ==
    <<" ", "b", "y", "t", "e", "s", ")", ":">>

\* convertContentToHex for an ArrayBuffer
convertContentToHex(view, filename) ==
    wHexadecimalDumpOf \o filename \o <<" ", "(">> \o toString(Len(view), 10) \o wBytes
    \o <<"\n", "\n">> \o hexLines(view, 0)

\* lines 1793-1806: the encodings from the e-th on
RECURSIVE TryEncodings(_, _, _)
TryEncodings(bytes, filename, e) ==
    IF e > Len(encodings) THEN convertContentToHex(bytes, filename)
    ELSE LET decoded == decode(encodings[e], bytes)
         IN IF LooksValid(decoded)
            THEN convertContentToDisplayableText(TextOfCodes(decoded))
            ELSE TryEncodings(bytes, filename, e + 1)

\* lines 1789-1810: content instanceof ArrayBuffer
convertBufferToDisplayableText(bytes, filename) == TryEncodings(bytes, filename, 1)

\* ------------------------------------------------------------------------
\* autoDetectParserTargets

MinConfidence == 5

\* the pass adds to the registry it finds
ResetTargets_Keep(old) == old

\* line 64: this.detectedTargets = []
ResetTargets(old) == <<>>

\* only a candidate that starts inside a target is taken to overlap it
OverlapsExisting_StartInside(targets, startPos, endPos) ==
    \E k \in 1..Len(targets) :
        targets[k].startPos <= startPos /\ startPos < targets[k].endPos

\* line 80: the candidate overlaps a target already in the registry
OverlapsExisting(targets, startPos, endPos) ==
    \E k \in 1..Len(targets) :
        overlaps(targets[k], [startPos |-> startPos, endPos |-> endPos])

\* a candidate that scores above every target it overlaps takes their place
RECURSIVE ScanMatches_BestWins(_, _, _, _, _)
ScanMatches_BestWins(targets, fieldType, content, ms, k) ==
    IF k > Len(ms) THEN targets
    ELSE LET targetText == trim(substring(content, ms[k].index, ms[k].end))
             startPos == ms[k].index
             endPos == startPos + Len(targetText)
             confidence == calculateConfidence(fieldType, targetText, startPos, content)
             target == ParserTarget(targetText, startPos, endPos, confidence, fieldType,
                                    getTargetContext(content, startPos, startPos + Len(targetText)))
             Clear(t) == ~overlaps(t, target)
             Beaten(t) == Clear(t) \/ t.confidence < confidence
         IN IF confidence >= MinConfidence /\ \A n \in 1..Len(targets) : Beaten(targets[n])
            THEN ScanMatches_BestWins(Append(SelectSeq(targets, Clear), target),
                                      fieldType, content, ms, k + 1)
            ELSE ScanMatches_BestWins(targets, fieldType, content, ms, k + 1)

\* lines 74-97: the loop over the matches of one pattern
RECURSIVE ScanMatches(_, _, _, _, _)
ScanMatches(targets, fieldType, content, ms, k) ==
    IF k > Len(ms) THEN targets
    ELSE LET targetText == trim(substring(content, ms[k].index, ms[k].end))
             startPos == ms[k].index
             endPos == startPos + Len(targetText)
             confidence == calculateConfidence(fieldType, targetText, startPos, content)
             target == ParserTarget(targetText, startPos, endPos, confidence, fieldType,
                                    getTargetContext(content, startPos, startPos + Len(targetText)))
         IN IF OverlapsExisting(targets, startPos, endPos)
            THEN ScanMatches(targets, fieldType, content, ms, k + 1)
            ELSE IF confidence >= MinConfidence
            THEN ScanMatches(Append(targets, target), fieldType, content, ms, k + 1)
            ELSE ScanMatches(targets, fieldType, content, ms, k + 1)

\* lines 72-98: the patterns of one field type, in order
RECURSIVE ScanPatterns(_, _, _, _, _)
ScanPatterns(targets, fieldType, patterns, content, j) ==
    IF j > Len(patterns) THEN targets
    ELSE ScanPatterns(ScanMatches(targets, fieldType, content,
                                  matchAll(patterns[j], content, 0), 1),
                      fieldType, patterns, content, j + 1)

\* lines 69-99: the field types of the catalog, in order
RECURSIVE ScanCatalog(_, _, _)
ScanCatalog(targets, content, f) ==
    IF f > Len(patternRules) THEN targets
    ELSE ScanCatalog(ScanPatterns(targets, patternRules[f].fieldType,
                                  patternRules[f].patterns, content, 1),
                     content, f + 1)

\* stable insertion of t into a sequence sorted by startPos
RECURSIVE InsertByStart(_, _)
InsertByStart(sorted, t) ==
    IF sorted = <<>> THEN <<t>>
    ELSE IF sorted[Len(sorted)].startPos <= t.startPos THEN Append(sorted, t)
    ELSE Append(InsertByStart(SubSeq(sorted, 1, Len(sorted) - 1), t), sorted[Len(sorted)])

RECURSIVE SortFrom(_, _, _)
SortFrom(sorted, targets, k) ==
    IF k > Len(targets) THEN sorted
    ELSE SortFrom(InsertByStart(sorted, targets[k]), targets, k + 1)

\* the registry is left in catalog order
SortByStartPos_Unsorted(targets) == targets

\* line 102: this.detectedTargets.sort((a, b) => a.startPos - b.startPos)
SortByStartPos(targets) == SortFrom(<<>>, targets, 1)

\* lines 69-102: the scan of the catalog from the registry `start`, then the sort
DetectionPass(start, content) == SortByStartPos(ScanCatalog(start, content, 1))

\* DetectionPass(<<>>, c) for the loadable texts, evaluated once
FreshPass == [c \in LoadableTexts |-> DetectionPass(<<>>, c)]

\* the registry a detection pass leaves and whether the pass raised:
\* content.substring (line 66) throws a TypeError when rawContent is undefined,
\* after line 64 has emptied the registry
autoDetectParserTargets(old, content) ==
    LET start == ResetTargets(old)
    IN IF IsNull(content)
       THEN [targets |-> start, raised |-> TRUE]
       ELSE [targets |-> IF start = <<>> /\ Val(content) \in LoadableTexts
                         THEN FreshPass[Val(content)]
                         ELSE DetectionPass(start, Val(content)),
             raised |-> FALSE]

\* ------------------------------------------------------------------------
\* Bounds and inputs

\* the values the field dropdown can send (createFieldOptions and "unmapped")
FieldInputs == {"job_number", "unmapped"}

\* indexes a mapping command may carry, one past the longest registry included
MaxIndex == 2

\* width in px of the element an overlay is laid over (getBoundingClientRect)
RectWidths == {72}
\* horizontal mouse travel of a drag, in px
Deltas == {0 - 60, 60}
\* widest overlay a drag is followed to
MaxWidth == 80

\* the corners of an overlay (createResizeHandles)
Handles == {"top-left", "top-right", "bottom-left", "bottom-right"}

\* ------------------------------------------------------------------------
\* Rules and the rule output

\* the code a generator returns, by what it is made of: the strategy, the
\* rule name, and the pattern, the offsets or the text written into it
Rule(type, name, pattern, start, end, text) ==
    [type |-> type, name |-> name, pattern |-> pattern, start |-> start, end |-> end,
     text |-> text]

\* a block of the rule output that is not a rule
Block(kind, text) == Rule(kind, <<>>, <<>>, 0, 0, text)

\* '// Generated rules will appear here...'
InitialOutput == Block("initial", <<>>)
\* '// Select some text in the content above to see rule preview...'
SelectPlaceholder == Block("placeholder", <<>>)
\* updateRulePreview: '<strong>Selected: "text"</strong>' and the previewed rule
Preview(text) == Block("preview", text)

\* no workflow step is highlighted
NoSteps == [select |-> "", generate |-> "", integrate |-> ""]

\* op: the operation; ruleType, ruleName: the form fields generateRule read;
\* reported: the alert it showed ("" for none); raised: it threw;
\* rule: Null or Some(the rule it produced); test: the selected text it read
RuleCall(op, ruleType, ruleName, reported, raised, rule, test) ==
    [op |-> op, ruleType |-> ruleType, ruleName |-> ruleName, reported |-> reported,
     raised |-> raised, rule |-> rule, test |-> test]

NoRuleCall == RuleCall("", "", <<>>, "", FALSE, Null, <<>>)

\* ------------------------------------------------------------------------
\* State

VARIABLES
    originalContent,  \* this.originalContent: Null or Some(text as it was read)
    rawContent,       \* this.rawContent: Null (undefined) or Some(text)
    detectedTargets,  \* this.detectedTargets
    dragState,        \* this.dragState: Null or Some(drag)
    lastCall,         \* history: the last operation, its arguments and outcome
    scanRecord,       \* history: Null or Some(pass): the content and the targets of
                      \* an earlier pass, and whether the content was scanned again
    targetsStale      \* history: the registry was detected from a replaced document

VARIABLES
    selectedText,     \* this.selectedText
    selectionCoords,  \* this.selectionCoords: Null or Some([start, end])
    ruleOutput,       \* the blocks of text in the element ruleOutput
    workflow,         \* the status of the workflow steps select, generate, integrate
    lastRuleCall      \* history: the last selection or rule operation and its outcome

VARIABLES
    activePass,       \* Null, or Some(pass): the detection pass that is running,
                      \* the content it reads, the registry it found, and the
                      \* place in the catalog's matches it has come to
    exported          \* Null or Some(what the last exportTargets wrote)

VARIABLES
    scored            \* history: Null or Some(call): the last call of
                      \* calculateConfidence, its arguments and the Number it returned

VARIABLES
    db,               \* the object stores of WorkManagementDB and their key generators
    calls,            \* the calls of save methods that have not settled: for each
                      \* Null, or Some(call) with its argument and what it awaits
    lastSave,         \* history: Null or Some(the save that settled last)
    clipboard         \* the system clipboard: Null or Some(the blocks written to it)

storageVars == <<db, calls, lastSave>>

\* most save calls that have not settled
MaxCalls == 2

\* the stores as onupgradeneeded creates them (lines 24-50); a key generator
\* starts at 1
InitStorage ==
    /\ db = [buildings |-> {}, devices |-> {}, tickets |-> {}, task_ticket_entries |-> {},
             generators |-> [buildings |-> 1, devices |-> 1, tickets |-> 1,
                             task_ticket_entries |-> 1]]
    /\ calls = [c \in 1..MaxCalls |-> Null]
    /\ lastSave = Null

passVars == <<activePass, exported>>
selectionVars == <<selectedText, selectionCoords>>
ruleVars == <<selectedText, selectionCoords, ruleOutput, workflow, lastRuleCall>>
registryVars == <<originalContent, rawContent, detectedTargets, dragState, lastCall,
                  scanRecord, targetsStale, activePass, exported>>

vars == <<originalContent, rawContent, detectedTargets, dragState, lastCall, scanRecord,
          targetsStale,
          selectedText, selectionCoords, ruleOutput, workflow, lastRuleCall,
          activePass, exported, scored, db, calls, lastSave, clipboard>>

\* a target carries a field type the dropdown set
ManuallyMapped(targets) ==
    \E k \in 1..Len(targets) : targets[k].fieldType \in FieldInputs

\* op, index, fieldType: the call; raised: it threw; edited: the registry
\* held a manually mapped target when the call was made
Call(op, index, fieldType, raised) ==
    [op |-> op, index |-> index, fieldType |-> fieldType, raised |-> raised,
     edited |-> ManuallyMapped(detectedTargets)]

\* resetApplicationState: rawContent is not among the fields it sets
resetApplicationState ==
    /\ originalContent' = Null
    /\ detectedTargets' = <<>>
    /\ dragState' = Null
    /\ selectedText' = <<>>
    /\ selectionCoords' = Null

\* the page as it is loaded: no selection, the initial rule output, no
\* workflow step highlighted
InitRuleVars ==
    /\ selectedText = <<>>
    /\ selectionCoords = Null
    /\ ruleOutput = <<InitialOutput>>
    /\ workflow = NoSteps
    /\ lastRuleCall = NoRuleCall

Init ==
    /\ originalContent = Null
    /\ rawContent = Null
    /\ detectedTargets = <<>>
    /\ dragState = Null
    /\ lastCall = Call("constructor", 0, "", FALSE)
    /\ scanRecord = Null
    /\ targetsStale = FALSE
    /\ InitRuleVars
    /\ activePass = Null
    /\ exported = Null
    /\ scored = Null
    /\ InitStorage
    /\ clipboard = Null

\* dragState.target is a reference to the target object, here its place in
\* the registry, or 0 once the registry has been replaced and the object
\* lives on outside it, where no reader of the registry sees it
DetachDrag(drag) ==
    IF IsNull(drag) THEN drag ELSE Some([Val(drag) EXCEPT !.target = 0])

\* new EmailInspector(): a new session
NewSession ==
    /\ resetApplicationState
    /\ rawContent' = Null
    /\ lastCall' = Call("constructor", 0, "", FALSE)
    /\ targetsStale' = FALSE
    /\ ruleOutput' = <<InitialOutput>>
    /\ workflow' = NoSteps
    /\ lastRuleCall' = NoRuleCall
    /\ activePass' = Null
    /\ exported' = Null
    /\ scored' = Null
    /\ UNCHANGED <<storageVars, clipboard>>
    /\ UNCHANGED scanRecord

\* displayEmailContent (lines 709-717): the text views are replaced, the
\* registry is not touched
displayEmailContent(content) ==
    /\ originalContent' = Some(content)
    /\ rawContent' = Some(convertContentToDisplayableText(content))
    /\ UNCHANGED <<detectedTargets, dragState>>

\* updateFileInfo (lines 680-684): the later workflow steps are reset
updateFileInfo == workflow' = NoSteps

\* resetSelectionInfo
resetSelectionInfo ==
    /\ selectedText' = <<>>
    /\ selectionCoords' = Null

\* processEmailFile for a .eml file whose content is read
processEmailFile ==
    \E content \in Files :
        /\ updateFileInfo
        /\ displayEmailContent(content)
        /\ resetSelectionInfo
        /\ lastCall' = Call("processEmailFile", 0, "", FALSE)
        /\ targetsStale' = (detectedTargets # <<>>)
        /\ UNCHANGED <<scanRecord, ruleOutput, lastRuleCall, activePass, exported, scored, storageVars, clipboard>>

\* processEmailFile when readFileContent rejects: the catch block reports the
\* error and nothing is replaced
processEmailFileFailed ==
    /\ updateFileInfo
    /\ lastCall' = Call("processEmailFileFailed", 0, "", FALSE)
    /\ UNCHANGED <<originalContent, rawContent, detectedTargets, dragState, scanRecord, targetsStale>>
    /\ UNCHANGED <<selectedText, selectionCoords, ruleOutput, lastRuleCall, activePass, exported, scored, storageVars, clipboard>>

\* regenerateTargets: the detection pass (when it raises,
\* displayUnifiedInteractiveView is not reached)
regenerateTargets ==
    LET pass == autoDetectParserTargets(detectedTargets, rawContent)
    IN /\ detectedTargets' = pass.targets
       /\ dragState' = DetachDrag(dragState)
       /\ lastCall' = Call("regenerateTargets", 0, "", pass.raised)
       /\ targetsStale' = FALSE
       /\ scanRecord' =
              IF ~IsNull(scanRecord) /\ ~pass.raised
                 /\ Val(scanRecord).content = Val(rawContent)
              THEN Some([Val(scanRecord) EXCEPT !.repeated = TRUE])
              ELSE scanRecord
       /\ UNCHANGED <<originalContent, rawContent>>
       /\ UNCHANGED <<ruleVars, passVars, scored, storageVars, clipboard>>

\* the same pass, which the history keeps if it keeps none yet
regenerateTargetsRecorded ==
    LET pass == autoDetectParserTargets(detectedTargets, rawContent)
    IN /\ ~pass.raised
       /\ IsNull(scanRecord)
       /\ detectedTargets' = pass.targets
       /\ dragState' = DetachDrag(dragState)
       /\ lastCall' = Call("regenerateTargets", 0, "", pass.raised)
       /\ targetsStale' = FALSE
       /\ scanRecord' = Some([content |-> Val(rawContent), targets |-> pass.targets,
                               repeated |-> FALSE])
       /\ UNCHANGED <<originalContent, rawContent>>
       /\ UNCHANGED <<ruleVars, passVars, scored, storageVars, clipboard>>

\* clearAllTargets
clearAllTargets ==
    /\ detectedTargets' = <<>>
    /\ dragState' = DetachDrag(dragState)
    /\ lastCall' = Call("clearAllTargets", 0, "", FALSE)
    /\ targetsStale' = FALSE
    /\ UNCHANGED <<originalContent, rawContent, scanRecord>>
    /\ UNCHANGED <<ruleVars, passVars, scored, storageVars, clipboard>>

\* the nudge is not clamped
MappedTarget_NoClamp(target, newFieldType) ==
    [target EXCEPT
        !.fieldType = newFieldType,
        !.confidence = IF newFieldType # "unmapped"
                       THEN target.confidence + 2
                       ELSE target.confidence]

\* the span is set back to the length of the text
MappedTarget_Respan(target, newFieldType) ==
    [target EXCEPT
        !.fieldType = newFieldType,
        !.confidence = IF newFieldType # "unmapped"
                       THEN Min2(MaxConfidence, target.confidence + 2)
                       ELSE target.confidence,
        !.endPos = target.startPos + Len(target.text)]

\* unmapping a target sets its confidence back to the base score
MappedTarget_UnmapResets(target, newFieldType) ==
    [target EXCEPT
        !.fieldType = newFieldType,
        !.confidence = IF newFieldType # "unmapped"
                       THEN Min2(MaxConfidence, target.confidence + 2)
                       ELSE BaseConfidence]

\* lines 470-471 of updateTargetMapping
MappedTarget(target, newFieldType) ==
    [target EXCEPT
        !.fieldType = newFieldType,
        !.confidence = IF newFieldType # "unmapped"
                       THEN Min2(MaxConfidence, target.confidence + 2)
                       ELSE target.confidence]

\* updateTargetMapping(index, newFieldType), index 0-based
updateTargetMapping ==
    \E index \in 0..MaxIndex, newFieldType \in FieldInputs :
        /\ detectedTargets' =
               IF index + 1 > Len(detectedTargets) THEN detectedTargets
               ELSE [detectedTargets EXCEPT
                        ![index + 1] = MappedTarget(detectedTargets[index + 1], newFieldType)]
        /\ lastCall' = Call("updateTargetMapping", index, newFieldType, FALSE)
        /\ UNCHANGED <<originalContent, rawContent, dragState, scanRecord, targetsStale>>
        /\ UNCHANGED <<ruleVars, passVars, scored, storageVars, clipboard>>

\* ------------------------------------------------------------------------
\* Overlays and resize

\* createVisualTargetOverlay (lines 266-283): the overlay is 8px wider than
\* the element found for the target
WithOverlay(target, rectWidth) == [target EXCEPT !.overlayDiv = Some([width |-> rectWidth + 8])]

\* initializeVisualTargets: every target whose text element is found in the
\* page (found) gets a new overlay
initializeVisualTargets ==
    \E found \in SUBSET (1..Len(detectedTargets)), rectWidth \in RectWidths :
        /\ detectedTargets' =
               [k \in 1..Len(detectedTargets) |->
                   IF k \in found THEN WithOverlay(detectedTargets[k], rectWidth)
                   ELSE detectedTargets[k]]
        /\ lastCall' = Call("initializeVisualTargets", 0, "", FALSE)
        /\ UNCHANGED <<originalContent, rawContent, dragState, scanRecord, targetsStale>>
        /\ UNCHANGED <<ruleVars, passVars, scored, storageVars, clipboard>>

\* startResize(target, handleType, event), from the mousedown listener of a
\* handle of the overlay of target k
startResize ==
    \E k \in 1..Len(detectedTargets), handle \in Handles :
        /\ ~IsNull(detectedTargets[k].overlayDiv)
        /\ dragState' = Some([target |-> k, handle |-> handle,
                              startWidth |-> Val(detectedTargets[k].overlayDiv).width])
        /\ lastCall' = Call("startResize", k - 1, "", FALSE)
        /\ UNCHANGED <<originalContent, rawContent, detectedTargets, scanRecord, targetsStale>>
        /\ UNCHANGED <<ruleVars, passVars, scored, storageVars, clipboard>>

\* lines 384-408 of handleResizeMove: the new width of the overlay
NewWidth(handle, startWidth, deltaX) ==
    IF handle \in {"top-left", "bottom-left"}
    THEN Max2(20, startWidth - deltaX)
    ELSE Max2(20, startWidth + deltaX)

\* handleResizeMove(event): without a drag it returns at once
handleResizeMove ==
    /\ lastCall' = Call("handleResizeMove", 0, "", FALSE)
    /\ UNCHANGED <<originalContent, rawContent, scanRecord, targetsStale>>
    /\ UNCHANGED <<ruleVars, passVars, scored, storageVars, clipboard>>
    /\ IF IsNull(dragState)
       THEN UNCHANGED <<detectedTargets, dragState>>
       ELSE \E deltaX \in Deltas :
            LET drag == Val(dragState)
                newWidth == NewWidth(drag.handle, drag.startWidth, deltaX)
            IN /\ newWidth <= MaxWidth
               /\ UNCHANGED dragState
               /\ IF drag.target = 0
                  THEN UNCHANGED detectedTargets
                  ELSE detectedTargets' =
                           [detectedTargets EXCEPT
                               ![drag.target].overlayDiv = Some([width |-> newWidth])]

\* Math.round(width / 8) for an integer width
CharCount(width) == (width + 4) \div 8

\* updateTargetBoundsFromVisual(target), lines 440-444
updateTargetBoundsFromVisual(target) ==
    [target EXCEPT
        !.endPos = target.startPos
                   + Max2(Len(target.text), CharCount(Val(target.overlayDiv).width))]

\* handleResizeEnd: without a drag it returns at once
handleResizeEnd ==
    /\ lastCall' = Call("handleResizeEnd", 0, "", FALSE)
    /\ UNCHANGED <<originalContent, rawContent, scanRecord, targetsStale>>
    /\ UNCHANGED <<ruleVars, passVars, scored, storageVars, clipboard>>
    /\ dragState' = Null
    /\ IF IsNull(dragState) \/ Val(dragState).target = 0
       THEN UNCHANGED detectedTargets
       ELSE detectedTargets' =
                [detectedTargets EXCEPT
                    ![Val(dragState).target] =
                        updateTargetBoundsFromVisual(detectedTargets[Val(dragState).target])]

\* ------------------------------------------------------------------------
\* The detection pass, statement by statement, and the handlers the event
\* loop dispatches

\* the matches of one pattern with the field type they are scanned for
AsTypedMatches(fieldType, ms) ==
    [k \in 1..Len(ms) |-> [fieldType |-> fieldType, index |-> ms[k].index, end |-> ms[k].end]]

\* every match of the catalog in the order the loops of lines 69-99 visit them
RECURSIVE TypedMatches(_, _, _)
TypedMatches(content, f, j) ==
    IF f > Len(patternRules) THEN <<>>
    ELSE IF j > Len(patternRules[f].patterns) THEN TypedMatches(content, f + 1, 1)
    ELSE AsTypedMatches(patternRules[f].fieldType,
                        matchAll(patternRules[f].patterns[j], content, 0))
         \o TypedMatches(content, f, j + 1)

\* a handler is dispatched whether or not a pass is running
HandlerMayRun_Anytime == TRUE

\* autoDetectParserTargets is synchronous (no await, no timer, no callback
\* into a handler): the event loop dispatches a handler only when no pass
\* is running
HandlerMayRun == IsNull(activePass)

\* the registry as it was when the running pass began, or as it is when no
\* pass is running
Published == IF IsNull(activePass) THEN detectedTargets ELSE Val(activePass).old

\* lines 64-66: the registry is emptied and rawContent is read
beginPass ==
    /\ HandlerMayRun
    /\ detectedTargets' = ResetTargets(detectedTargets)
    /\ dragState' = DetachDrag(dragState)
    /\ targetsStale' = FALSE
    /\ IF IsNull(rawContent)
       THEN /\ activePass' = Null
            /\ lastCall' = Call("regenerateTargets", 0, "", TRUE)
       ELSE /\ activePass' = Some([content |-> Val(rawContent), old |-> detectedTargets,
                                   next |-> 1])
            /\ lastCall' = Call("autoDetectParserTargets", 0, "", FALSE)
    /\ UNCHANGED <<originalContent, rawContent, scanRecord, exported>>
    /\ UNCHANGED <<ruleVars, scored, storageVars, clipboard>>

\* lines 74-97 for the next match of the catalog
scanStep ==
    /\ ~IsNull(activePass)
    /\ LET ms == TypedMatches(Val(activePass).content, 1, 1)
           next == Val(activePass).next
       IN /\ next <= Len(ms)
          /\ detectedTargets' = ScanMatches(detectedTargets, ms[next].fieldType,
                                            Val(activePass).content, <<ms[next]>>, 1)
          /\ activePass' = Some([Val(activePass) EXCEPT !.next = next + 1])
    /\ UNCHANGED <<originalContent, rawContent, dragState, lastCall, scanRecord,
                   targetsStale, exported>>
    /\ UNCHANGED <<ruleVars, scored, storageVars, clipboard>>

\* line 102 and the return to regenerateTargets
endPass ==
    /\ ~IsNull(activePass)
    /\ Val(activePass).next > Len(TypedMatches(Val(activePass).content, 1, 1))
    /\ detectedTargets' = SortByStartPos(detectedTargets)
    /\ activePass' = Null
    /\ lastCall' = Call("regenerateTargets", 0, "", FALSE)
    /\ UNCHANGED <<originalContent, rawContent, dragState, scanRecord, targetsStale, exported>>
    /\ UNCHANGED <<ruleVars, scored, storageVars, clipboard>>

\* what exportTargets writes of a target
ExportedTarget(t) ==
    [text |-> t.text, startPos |-> t.startPos, endPos |-> t.endPos,
     confidence |-> t.confidence, fieldType |-> t.fieldType, context |-> t.context]

ExportedTargets(targets) == [k \in 1..Len(targets) |-> ExportedTarget(targets[k])]

\* exportTargets: the registry is read and written to a file; published
\* (history) is the registry a consumer is to see at that point
exportTargets ==
    /\ HandlerMayRun
    /\ exported' = Some([rawContent |-> rawContent,
                         detectedTargets |-> ExportedTargets(detectedTargets),
                         published |-> Published])
    /\ lastCall' = Call("exportTargets", 0, "", FALSE)
    /\ UNCHANGED <<originalContent, rawContent, detectedTargets, dragState, scanRecord,
                   targetsStale, activePass>>
    /\ UNCHANGED <<ruleVars, scored, storageVars, clipboard>>

\* the dropdown of a target is changed
dispatchTargetMapping == HandlerMayRun /\ updateTargetMapping

\* ------------------------------------------------------------------------
\* Text selection

\* the text node before the first and after the last content line of the
\* element .unified-content (createUnifiedInlineContent, lines 794-796)
UnifiedPrefix == <<"\n", " ", " ", " ", " ", " ", " ", " ", " ", " ", " ", " ", " ">>
UnifiedSuffix == <<"\n", " ", " ", " ", " ", " ", " ", " ", " ">>

\* the text of the content lines: rawContent.split('\n'), every line in a
\* div of its own, an empty line shown as a no-break space; `empty`: the
\* line read so far has no character
RECURSIVE LinesText(_, _)
LinesText(s, empty) ==
    IF s = <<>> THEN IF empty THEN <<"NBSP">> ELSE <<>>
    ELSE IF Head(s) = "\n"
         THEN (IF empty THEN <<"NBSP">> ELSE <<>>) \o LinesText(Tail(s), TRUE)
    ELSE <<Head(s)>> \o LinesText(Tail(s), FALSE)

\* unifiedContent.textContent for a document without markup characters
UnifiedTextContent(content) == UnifiedPrefix \o LinesText(content, TRUE) \o UnifiedSuffix

\* String.prototype.indexOf
indexOf(s, w) ==
    IF includes(s, w) THEN CHOOSE i \in 0..Len(s) : HasAt(s, w, i) /\ \A j \in 0..(i - 1) : ~HasAt(s, w, j)
    ELSE 0 - 1

\* getSelectionCoordsInUnifiedView: the offsets of the first occurrence of
\* the selection's text in the text of the view
getSelectionCoordsInUnifiedView(fullText, selected) ==
    LET beforeText == substring(fullText, 0, indexOf(fullText, selected))
    IN [start |-> Len(beforeText), end |-> Len(beforeText) + Len(selected)]

\* getSelectionCoordinates: selectionStart of the text area and the length
\* of the trimmed selection
getSelectionCoordinates(startOffset, text) ==
    [start |-> startOffset, end |-> startOffset + Len(text)]

\* how far outside the content lines a selection in the view may reach
SelectionMargin == 1
\* most characters in a selection
MaxSelection == 3

\* the offsets a selection in the view may start or end at
ViewOffsets(content) ==
    (Len(UnifiedPrefix) - SelectionMargin)
        .. (Len(UnifiedPrefix) + Len(LinesText(content, TRUE)) + SelectionMargin)

\* clearTextSelection
clearTextSelection ==
    /\ resetSelectionInfo
    /\ ruleOutput' = <<SelectPlaceholder>>
    /\ workflow' = NoSteps

\* handleTextSelectionInUnifiedView, for the selection from..to of the text
\* of the view; the view exists when a document is shown
handleTextSelectionInUnifiedView ==
    /\ ~IsNull(rawContent)
    /\ Val(rawContent) # <<>>
    /\ \E from \in ViewOffsets(Val(rawContent)), to \in ViewOffsets(Val(rawContent)) :
           LET fullText == UnifiedTextContent(Val(rawContent))
               selection == substring(fullText, from, to)
               text == trim(selection)
           IN /\ from <= to
              /\ to - from <= MaxSelection
              /\ IF from < to
                 THEN IF Len(text) > 2
                      THEN /\ selectedText' = text
                           /\ selectionCoords' =
                                  Some(getSelectionCoordsInUnifiedView(fullText, selection))
                           /\ ruleOutput' = <<Preview(text)>>
                           /\ workflow' = [workflow EXCEPT !.select = "completed",
                                                           !.generate = "active"]
                      ELSE UNCHANGED <<selectedText, selectionCoords, ruleOutput, workflow>>
                 ELSE clearTextSelection
    /\ lastRuleCall' = RuleCall("handleTextSelectionInUnifiedView", "", <<>>, "", FALSE,
                                Null, <<>>)
    /\ UNCHANGED <<registryVars, scored, storageVars, clipboard>>

\* handleTextSelection, for the selection from..to of the text area, which
\* is taken to show the text of the document
handleTextSelection ==
    /\ ~IsNull(rawContent)
    /\ \E from \in 0..Len(Val(rawContent)), to \in 0..Len(Val(rawContent)) :
           LET text == trim(substring(Val(rawContent), from, to))
           IN /\ from <= to
              /\ to - from <= MaxSelection
              /\ selectedText' = text
              /\ IF text # <<>>
                 THEN /\ selectionCoords' = Some(getSelectionCoordinates(from, text))
                      /\ workflow' = [workflow EXCEPT !.select = "completed",
                                                      !.generate = "active"]
                 ELSE UNCHANGED <<selectionCoords, workflow>>
    /\ lastRuleCall' = RuleCall("handleTextSelection", "", <<>>, "", FALSE, Null, <<>>)
    /\ UNCHANGED ruleOutput
    /\ UNCHANGED <<registryVars, scored, storageVars, clipboard>>

\* ------------------------------------------------------------------------
\* Rule generation

\* the characters of the class /[.*+?^${}()|[\]\\]/
RegexSpecials ==
    {".", "*", "+", "?", "^", "$", "{", "}", "(", ")", "|", "[", "]", "\\"}

\* text.replace(/[.*+?^${}()|[\]\\]/g, '\\$&')
RECURSIVE escaped(_)
escaped(text) ==
    IF text = <<>> THEN <<>>
    ELSE (IF Head(text) \in RegexSpecials THEN <<"\\", Head(text)>> ELSE <<Head(text)>>)
         \o escaped(Tail(text))

generateRegexRule(name, text, coords) == Rule("regex", name, escaped(text), 0, 0, <<>>)

generateCoordinateRule(name, text, coords) ==
    Rule("coordinates", name, <<>>, Val(coords).start, Val(coords).end, <<>>)

generateCSSRule(name, text, coords) == Rule("css", name, <<>>, 0, 0, text)

generateXPathRule(name, text, coords) == Rule("xpath", name, <<>>, 0, 0, text)

\* the keys of this.ruleGenerators
ruleGenerators == {"regex", "coordinates", "css", "xpath"}

\* this.ruleGenerators[ruleType](name, text, coords)
generator(ruleType, name, text, coords) ==
    IF ruleType = "regex" THEN generateRegexRule(name, text, coords)
    ELSE IF ruleType = "coordinates" THEN generateCoordinateRule(name, text, coords)
    ELSE IF ruleType = "css" THEN generateCSSRule(name, text, coords)
    ELSE generateXPathRule(name, text, coords)

\* the values of the form field ruleType
RuleTypeInputs == {"regex", "coordinates", "css", "xpath", "sql"}
\* the values of the form field ruleName
RuleNameInputs == {<<>>, <<" ">>, <<"s", "i", "t", "e">>}
\* most rules in the rule output to which generateRule is followed
MaxRules == 1

\* the rules among the blocks of the rule output
RulesIn(output) == {k \in 1..Len(output) : output[k].type \in ruleGenerators}

\* a name of blanks is taken for a name
NameMissing_Untrimmed(ruleName) == ruleName = <<>>

\* line 2486: !ruleName.trim()
NameMissing(ruleName) == trim(ruleName) = <<>>

\* addRuleToOutput
addRuleToOutput(rule) ==
    /\ ruleOutput' = IF ruleOutput = <<InitialOutput>> THEN <<rule>>
                     ELSE Append(ruleOutput, rule)
    /\ workflow' = [workflow EXCEPT !.generate = "completed", !.integrate = "active"]

\* generateRule, with the values it reads from the form
generateRule ==
    /\ Cardinality(RulesIn(ruleOutput)) <= MaxRules
    /\ \E ruleType \in RuleTypeInputs, ruleName \in RuleNameInputs :
           IF selectedText = <<>>
           THEN /\ lastRuleCall' = RuleCall("generateRule", ruleType, ruleName,
                                            "Please select some text first to generate a rule.",
                                            FALSE, Null, selectedText)
                /\ UNCHANGED <<ruleOutput, workflow>>
           ELSE IF NameMissing(ruleName)
           THEN /\ lastRuleCall' = RuleCall("generateRule", ruleType, ruleName,
                                            "Please enter a rule name.",
                                            FALSE, Null, selectedText)
                /\ UNCHANGED <<ruleOutput, workflow>>
           ELSE IF ruleType \notin ruleGenerators
           THEN /\ lastRuleCall' = RuleCall("generateRule", ruleType, ruleName, "",
                                            FALSE, Null, selectedText)
                /\ UNCHANGED <<ruleOutput, workflow>>
           ELSE IF ruleType = "coordinates" /\ IsNull(selectionCoords)
           THEN /\ lastRuleCall' = RuleCall("generateRule", ruleType, ruleName, "",
                                            TRUE, Null, selectedText)
                /\ UNCHANGED <<ruleOutput, workflow>>
           ELSE LET rule == generator(ruleType, ruleName, selectedText, selectionCoords)
                IN /\ lastRuleCall' = RuleCall("generateRule", ruleType, ruleName, "",
                                               FALSE, Some(rule), selectedText)
                   /\ addRuleToOutput(rule)
    /\ UNCHANGED selectionVars
    /\ UNCHANGED <<registryVars, scored, storageVars, clipboard>>

\* copyRules: the rule output is written to the clipboard unless it is the
\* text the page starts with; writeText settles either way (the browser may
\* refuse the write)
copyRules ==
    /\ IF ruleOutput = <<InitialOutput>>
       THEN /\ lastRuleCall' = RuleCall("copyRules", "", <<>>,
                                        "No rules generated yet. Please select text and generate some rules first.",
                                        FALSE, Null, <<>>)
            /\ UNCHANGED clipboard
       ELSE \/ /\ clipboard' = Some(ruleOutput)
               /\ lastRuleCall' = RuleCall("copyRules", "", <<>>,
                                           "Rules copied to clipboard!", FALSE, Null, <<>>)
            \/ /\ UNCHANGED clipboard
               /\ lastRuleCall' = RuleCall("copyRules", "", <<>>,
                                           "Failed to copy rules to clipboard.",
                                           FALSE, Null, <<>>)
    /\ UNCHANGED <<selectionVars, ruleOutput, workflow>>
    /\ UNCHANGED <<registryVars, scored, storageVars>>

\* ------------------------------------------------------------------------
\* The generated code, run

\* the source between the slashes holds a "/" no backslash precedes, or a
\* line terminator: the expression literal ends early and the generated
\* function is a SyntaxError
RECURSIVE BreaksLiteral(_)
BreaksLiteral(src) ==
    IF src = <<>> THEN FALSE
    ELSE IF Head(src) = "\\" THEN BreaksLiteral(SubSeq(src, 3, Len(src)))
    ELSE Head(src) \in {"/", "\n", "\r"} \/ BreaksLiteral(Tail(src))

\* the pattern a source compiles to: a backslash makes the next character a
\* literal, a dot matches any character but a line terminator, any other
\* character of the sources that arise is a literal
RECURSIVE PatternOf(_)
PatternOf(src) ==
    IF src = <<>> THEN <<>>
    ELSE IF Head(src) = "\\" /\ Len(src) >= 2
         THEN <<Lit(<< <<src[2]>> >>)>> \o PatternOf(SubSeq(src, 3, Len(src)))
    ELSE IF Head(src) = "."
         THEN <<NotCls({"\n", "\r"}, 1, 1)>> \o PatternOf(Tail(src))
    ELSE <<Lit(<< <<Head(src)>> >>)>> \o PatternOf(Tail(src))

\* String.prototype.match with a pattern without /g: Null or Some(match[0])
RECURSIVE match(_, _, _)
match(p, s, from) ==
    IF from > Len(s) THEN Null
    ELSE LET e == MatchAt(p, s, from)
         IN IF e # NoMatch THEN Some(substring(s, from, e)) ELSE match(p, s, from + 1)

\* the function a regex rule is, applied to content: Null when it does not
\* compile, else Some(match ? match[1] || match[0] : '')
RunRegexRule(rule, content) ==
    IF BreaksLiteral(rule.pattern) THEN Null
    ELSE LET m == match(PatternOf(rule.pattern), content, 0)
         IN IF IsNull(m) THEN Some(<<>>) ELSE m

\* the function a coordinate rule is, applied to content
RunCoordinateRule(rule, content) == trim(substring(content, rule.start, rule.end))

\* the text is written between double quotes into the generated function:
\* a double quote or a line terminator in it ends the string literal early
\* and the function is a SyntaxError (the documents hold no backslash)
BreaksString(text) == \E k \in 1..Len(text) : text[k] \in {"\"", "\n", "\r"}

\* content.split(/[\r\n]/)
RECURSIVE Lines(_)
Lines(content) ==
    LET breaks == {k \in 1..Len(content) : content[k] \in {"\r", "\n"}}
    IN IF breaks = {} THEN <<content>>
       ELSE LET k == CHOOSE b \in breaks : \A c \in breaks : b <= c
            IN <<SubSeq(content, 1, k - 1)>> \o Lines(SubSeq(content, k + 1, Len(content)))

\* the function an xpath rule is, applied to content: Null when it does not
\* compile, else Some(line ? line.replace(text, '').trim() : '') for the
\* first line that includes the text
RunXPathRule(rule, content) ==
    IF BreaksString(rule.text) THEN Null
    ELSE LET lines == Lines(content)
             found == {k \in 1..Len(lines) : includes(lines[k], rule.text)}
         IN IF found = {} THEN Some(<<>>)
            ELSE LET line == lines[CHOOSE k \in found : \A n \in found : k <= n]
                     at == indexOf(line, rule.text)
                 IN IF line = <<>> THEN Some(<<>>)
                    ELSE Some(trim(substring(line, 0, at)
                                   \o substring(line, at + Len(rule.text), Len(line))))

\* the function a css rule is, applied to content: Null when it does not
\* compile; parts[1] of content.split(text) is what stands between the first
\* occurrence of the text and the next, or the end
RunCSSRule(rule, content) ==
    IF BreaksString(rule.text) THEN Null
    ELSE IF ~includes(content, rule.text) THEN Some(<<>>)
    ELSE LET at == indexOf(content, rule.text)
             after == substring(content, at + Len(rule.text), Len(content))
             next == indexOf(after, rule.text)
             part == IF next < 0 THEN after ELSE substring(after, 0, next)
         IN IF part = <<>> THEN Some(rule.text)
            ELSE Some(trim(Lines(part)[1]))

\* ------------------------------------------------------------------------
\* WMSStorage
\*
\* Every save method is async: it runs to its next await, the request it
\* awaits is carried out in a transaction of its own, and the method goes on
\* when the event loop delivers the result, after whatever other calls did
\* in between. A request is taken to be carried out when it is made (the
\* transactions on a store are all 'readwrite' and run in the order they are
\* created).

\* a key property that is missing (undefined) or 0: both are falsy in
\* !data.building_id, and a put generates the key of a record without one
NoKey == 0

\* largest key a generator gives
MaxKey == 2

\* getBuildingById, getTicketById: store.get(id), Null for undefined
getBuildingById(id) ==
    IF \E b \in db.buildings : b.building_id = id
    THEN Some(CHOOSE b \in db.buildings : b.building_id = id)
    ELSE Null

getTicketById(id) ==
    IF \E t \in db.tickets : t.ticket_id = id
    THEN Some(CHOOSE t \in db.tickets : t.ticket_id = id)
    ELSE Null

\* getBuildingByName: the first record of index building_name, which lists
\* the records of one name by their key
getBuildingByName(name) ==
    LET found == {b \in db.buildings : b.building_name = name}
    IN IF found = {} THEN Null
       ELSE Some(CHOOSE b \in found : \A o \in found : b.building_id <= o.building_id)

\* getTicketByNumber
getTicketByNumber(number) ==
    LET found == {t \in db.tickets : t.ticket_number = number}
    IN IF found = {} THEN Null
       ELSE Some(CHOOSE t \in found : \A o \in found : t.ticket_id <= o.ticket_id)

\* getDeviceByNameAndBuilding: the records of index building_id for the
\* building, by their key, and of them the first with the name
getDeviceByNameAndBuilding(deviceName, buildingId) ==
    LET found == {d \in db.devices : d.building_id = buildingId /\ d.device_name = deviceName}
    IN IF found = {} THEN Null
       ELSE Some(CHOOSE d \in found : \A o \in found : d.device_id <= o.device_id)

\* the key store.put gives a record: its own, or the next of the generator
PutKey(store, key) == IF key = NoKey THEN db.generators[store] ELSE key

\* the generators after store.put has stored a record under the key
GeneratorsAfterPut(store, key) ==
    [db.generators EXCEPT ![store] = Max2(@, PutKey(store, key) + 1)]

\* a method has been called and awaits the result of its first request
Called(op, data, result) == Some([op |-> op, data |-> data, step |-> 1, result |-> result])

\* a save has settled: it returned, or it threw
Settled(c, op, data, raised) ==
    Some([call |-> c, op |-> op, data |-> data, raised |-> raised])

\* the arguments of the save methods
BuildingInputs == [building_id : {NoKey, 1}, building_name : {"HQ"}]
DeviceInputs == [device_id : {NoKey, 1}, building_id : {1, 2}, device_name : {"cam"}]
TicketInputs == [ticket_id : {NoKey, 1}, ticket_number : {"T-1"}]
EntryInputs == [entry_id : {NoKey}, ticket_id : {1, 2}]

\* line 133: the device the call has read
existingDevice(c) == Val(calls[c]).result

\* saveBuilding, to its first await (line 102)
saveBuildingCalled(c) ==
    /\ IsNull(calls[c])
    /\ \E buildingData \in BuildingInputs :
           calls' = [calls EXCEPT ![c] = Called("saveBuilding", buildingData,
                                                getBuildingByName(buildingData.building_name))]
    /\ UNCHANGED <<db, lastSave>>

\* saveBuilding, lines 103-109
saveBuildingResumed(c) ==
    /\ ~IsNull(calls[c])
    /\ Val(calls[c]).op = "saveBuilding"
    /\ LET buildingData == Val(calls[c]).data
           existingBuilding == Val(calls[c]).result
       IN IF ~IsNull(existingBuilding)
             /\ (buildingData.building_id = NoKey
                 \/ Val(existingBuilding).building_id # buildingData.building_id)
          THEN /\ lastSave' = Settled(c, "saveBuilding", buildingData, TRUE)
               /\ UNCHANGED db
          ELSE LET savedId == PutKey("buildings", buildingData.building_id)
               IN /\ savedId <= MaxKey
                  /\ db' = [db EXCEPT
                            !.buildings = {b \in @ : b.building_id # savedId}
                                          \cup {[buildingData EXCEPT !.building_id = savedId]},
                            !.generators = GeneratorsAfterPut("buildings",
                                                              buildingData.building_id)]
                  /\ lastSave' = Settled(c, "saveBuilding", buildingData, FALSE)
    /\ calls' = [calls EXCEPT ![c] = Null]

\* saveDevice, to its first await (line 128)
saveDeviceCalled(c) ==
    /\ IsNull(calls[c])
    /\ \E deviceData \in DeviceInputs :
           calls' = [calls EXCEPT ![c] = Called("saveDevice", deviceData,
                                                getBuildingById(deviceData.building_id))]
    /\ UNCHANGED <<db, lastSave>>

\* saveDevice, lines 129-133: to its second await
saveDeviceBuildingRead(c) ==
    /\ ~IsNull(calls[c])
    /\ Val(calls[c]).op = "saveDevice"
    /\ Val(calls[c]).step = 1
    /\ LET deviceData == Val(calls[c]).data
           building == Val(calls[c]).result
       IN IF IsNull(building)
          THEN /\ lastSave' = Settled(c, "saveDevice", deviceData, TRUE)
               /\ calls' = [calls EXCEPT ![c] = Null]
          ELSE /\ calls' = [calls EXCEPT ![c] =
                               Some([Val(calls[c]) EXCEPT
                                     !.step = 2,
                                     !.result = getDeviceByNameAndBuilding(
                                                    deviceData.device_name,
                                                    deviceData.building_id)])]
               /\ UNCHANGED lastSave
    /\ UNCHANGED db

\* saveDevice, lines 134-141
saveDeviceResumed(c) ==
    /\ ~IsNull(calls[c])
    /\ Val(calls[c]).op = "saveDevice"
    /\ Val(calls[c]).step = 2
    /\ LET deviceData == Val(calls[c]).data
       IN IF ~IsNull(existingDevice(c))
             /\ (deviceData.device_id = NoKey
                 \/ Val(existingDevice(c)).device_id # deviceData.device_id)
          THEN /\ lastSave' = Settled(c, "saveDevice", deviceData, TRUE)
               /\ UNCHANGED db
          ELSE LET savedId == PutKey("devices", deviceData.device_id)
               IN /\ savedId <= MaxKey
                  /\ db' = [db EXCEPT
                            !.devices = {d \in @ : d.device_id # savedId}
                                        \cup {[deviceData EXCEPT !.device_id = savedId]},
                            !.generators = GeneratorsAfterPut("devices", deviceData.device_id)]
                  /\ lastSave' = Settled(c, "saveDevice", deviceData, FALSE)
    /\ calls' = [calls EXCEPT ![c] = Null]

\* saveTicket, to its first await (line 163)
saveTicketCalled(c) ==
    /\ IsNull(calls[c])
    /\ \E ticketData \in TicketInputs :
           calls' = [calls EXCEPT ![c] = Called("saveTicket", ticketData,
                                                getTicketByNumber(ticketData.ticket_number))]
    /\ UNCHANGED <<db, lastSave>>

\* saveTicket, lines 164-170; the index ticket_number is unique (line 43), so
\* the put of a number another ticket holds fails and the method throws
saveTicketResumed(c) ==
    /\ ~IsNull(calls[c])
    /\ Val(calls[c]).op = "saveTicket"
    /\ LET ticketData == Val(calls[c]).data
           existingTicket == Val(calls[c]).result
           savedId == PutKey("tickets", ticketData.ticket_id)
       IN IF ~IsNull(existingTicket)
             /\ (ticketData.ticket_id = NoKey
                 \/ Val(existingTicket).ticket_id # ticketData.ticket_id)
          THEN /\ lastSave' = Settled(c, "saveTicket", ticketData, TRUE)
               /\ UNCHANGED db
          ELSE IF \E t \in db.tickets : /\ t.ticket_number = ticketData.ticket_number
                                        /\ t.ticket_id # savedId
          THEN /\ lastSave' = Settled(c, "saveTicket", ticketData, TRUE)
               /\ UNCHANGED db
          ELSE /\ savedId <= MaxKey
               /\ db' = [db EXCEPT
                         !.tickets = {t \in @ : t.ticket_id # savedId}
                                     \cup {[ticketData EXCEPT !.ticket_id = savedId]},
                         !.generators = GeneratorsAfterPut("tickets", ticketData.ticket_id)]
               /\ lastSave' = Settled(c, "saveTicket", ticketData, FALSE)
    /\ calls' = [calls EXCEPT ![c] = Null]

\* saveTicketEntry, to its first await (line 188)
saveTicketEntryCalled(c) ==
    /\ IsNull(calls[c])
    /\ \E entryData \in EntryInputs :
           calls' = [calls EXCEPT ![c] = Called("saveTicketEntry", entryData,
                                                getTicketById(entryData.ticket_id))]
    /\ UNCHANGED <<db, lastSave>>

\* saveTicketEntry, lines 189-192
saveTicketEntryResumed(c) ==
    /\ ~IsNull(calls[c])
    /\ Val(calls[c]).op = "saveTicketEntry"
    /\ LET entryData == Val(calls[c]).data
           ticket == Val(calls[c]).result
       IN IF IsNull(ticket)
          THEN /\ lastSave' = Settled(c, "saveTicketEntry", entryData, TRUE)
               /\ UNCHANGED db
          ELSE LET savedId == PutKey("task_ticket_entries", entryData.entry_id)
               IN /\ savedId <= MaxKey
                  /\ db' = [db EXCEPT
                            !.task_ticket_entries =
                                {e \in @ : e.entry_id # savedId}
                                \cup {[entryData EXCEPT !.entry_id = savedId]},
                            !.generators = GeneratorsAfterPut("task_ticket_entries",
                                                              entryData.entry_id)]
                  /\ lastSave' = Settled(c, "saveTicketEntry", entryData, FALSE)
    /\ calls' = [calls EXCEPT ![c] = Null]

\* the page and its inspector, which the storage layer does not touch
inspectorVars == <<registryVars, ruleVars, scored, clipboard>>

NextStorage ==
    \E c \in 1..MaxCalls :
        /\ \/ saveBuildingCalled(c)
           \/ saveBuildingResumed(c)
           \/ saveDeviceCalled(c)
           \/ saveDeviceBuildingRead(c)
           \/ saveDeviceResumed(c)
           \/ saveTicketCalled(c)
           \/ saveTicketResumed(c)
           \/ saveTicketEntryCalled(c)
           \/ saveTicketEntryResumed(c)
        /\ UNCHANGED inspectorVars

SpecStorage == Init /\ [][NextStorage]_vars

\* ------------------------------------------------------------------------
\* Specification

Next ==
    \/ NewSession
    \/ processEmailFile
    \/ processEmailFileFailed
    \/ regenerateTargets
    \/ clearAllTargets
    \/ updateTargetMapping
    \/ initializeVisualTargets
    \/ startResize
    \/ handleResizeMove
    \/ handleResizeEnd

Spec == Init /\ [][Next]_vars

\* a detection pass over each of the generated documents
InitDetect ==
    /\ \E f \in GeneratedFiles :
           /\ originalContent = Some(f)
           /\ rawContent = Some(convertContentToDisplayableText(f))
    /\ detectedTargets = <<>>
    /\ dragState = Null
    /\ lastCall = Call("processEmailFile", 0, "", FALSE)
    /\ scanRecord = Null
    /\ targetsStale = FALSE
    /\ InitRuleVars
    /\ activePass = Null
    /\ exported = Null
    /\ scored = Null
    /\ InitStorage
    /\ clipboard = Null

NextDetect == regenerateTargets \/ clearAllTargets

SpecDetect == InitDetect /\ [][NextDetect]_vars

\* calls of calculateConfidence: a text after some spaces and before a tail,
\* scored as a field type
ScoreTexts ==
    { <<"1", "2", "3", "4", "5", "6", "7">>,
      <<"1", "2", "3", "4", "5">>,
      <<"P", "1", "2", "3", "4", "5">>,
      <<"S", "E", "A", "1", "2", "4">>,
      <<"R", "e", "a", "d", "e", "r">> }

ScoreTails ==
    { <<>>,
      <<" ">> \o wSiteLc,
      <<" ">> \o wServiceCallLc,
      <<" ">> \o wAlarmActiveLc }

ScoreTypes == {patternRules[f].fieldType : f \in 1..Len(patternRules)} \cup {"unmapped"}

\* most spaces before the text
MaxPad == 7

scoreCandidate ==
    /\ \E text \in ScoreTexts, tail \in ScoreTails, fieldType \in ScoreTypes,
          position \in 0..MaxPad :
           LET content == [k \in 1..position |-> " "] \o text \o tail
           IN scored' = Some([fieldType |-> fieldType, text |-> text,
                              position |-> position, content |-> content,
                              confidence |->
                                  calculateConfidenceNumber(fieldType, text, position,
                                                            content)])
    /\ UNCHANGED <<registryVars, ruleVars, storageVars, clipboard>>

SpecScore == Init /\ [][scoreCandidate]_vars

\* a detection pass over each of the scenario documents
InitScenario ==
    /\ \E f \in ScenarioFiles :
           /\ originalContent = Some(f)
           /\ rawContent = Some(convertContentToDisplayableText(f))
    /\ detectedTargets = <<>>
    /\ dragState = Null
    /\ lastCall = Call("processEmailFile", 0, "", FALSE)
    /\ scanRecord = Null
    /\ targetsStale = FALSE
    /\ InitRuleVars
    /\ activePass = Null
    /\ exported = Null
    /\ scored = Null
    /\ InitStorage
    /\ clipboard = Null

SpecScenario == InitScenario /\ [][NextDetect]_vars

\* the sessions whose history keeps one detection pass; their drags are
\* released where they were started
NextRecorded ==
    \/ NewSession
    \/ processEmailFile
    \/ regenerateTargets
    \/ regenerateTargetsRecorded
    \/ clearAllTargets
    \/ updateTargetMapping
    \/ initializeVisualTargets
    \/ startResize
    \/ handleResizeEnd

SpecRecorded == Init /\ [][NextRecorded]_vars

\* the documents rules are generated from
FileDotted == <<"a", "b", "c", " ", "a", ".", "c">>
FileSlashed == <<"1", "/", "2", " ", "S", "E", "A", "1", "2", "4">>
RuleFiles == {FileDotted, FileSlashed}

\* a document that is shown, nothing selected and no rule generated
InitRules ==
    /\ \E f \in RuleFiles :
           /\ originalContent = Some(f)
           /\ rawContent = Some(convertContentToDisplayableText(f))
    /\ detectedTargets = <<>>
    /\ dragState = Null
    /\ lastCall = Call("processEmailFile", 0, "", FALSE)
    /\ scanRecord = Null
    /\ targetsStale = FALSE
    /\ InitRuleVars
    /\ activePass = Null
    /\ exported = Null
    /\ scored = Null
    /\ InitStorage
    /\ clipboard = Null

\* selections in the view of the document and the rules generated from them
NextRules ==
    \/ handleTextSelectionInUnifiedView
    \/ generateRule

SpecRules == InitRules /\ [][NextRules]_vars

\* selections, the rules generated from them, and the button Copy Rules
NextCopy ==
    \/ handleTextSelectionInUnifiedView
    \/ generateRule
    \/ copyRules

\* the document FileDotted is shown, nothing selected, nothing copied
InitCopy == InitRules /\ originalContent = Some(FileDotted)

SpecCopy == InitCopy /\ [][NextCopy]_vars

\* documents the generated rules are applied to: two lines, and a line
\* with quoted words
FileTwoLines == <<"a", "b", "c", " ", "d", "\n", "x", " ", "a", "b", "c">>
FileQuoted == <<"s", "a", "y", " ", "\"", "h", "i", "\"">>
ApplyFiles == {FileTwoLines, FileQuoted}

InitApply ==
    /\ \E f \in ApplyFiles :
           /\ originalContent = Some(f)
           /\ rawContent = Some(convertContentToDisplayableText(f))
    /\ detectedTargets = <<>>
    /\ dragState = Null
    /\ lastCall = Call("processEmailFile", 0, "", FALSE)
    /\ scanRecord = Null
    /\ targetsStale = FALSE
    /\ InitRuleVars
    /\ activePass = Null
    /\ exported = Null
    /\ scored = Null
    /\ InitStorage
    /\ clipboard = Null

SpecApply == InitApply /\ [][NextRules]_vars

\* the selections either handler records
NextSelect ==
    \/ handleTextSelectionInUnifiedView
    \/ handleTextSelection

SpecSelect == InitRules /\ [][NextSelect]_vars


\* the characters the texts that are normalized are made of
TextAlphabet == DOMAIN ControlCode \cup {" ", "a"}
\* most characters in such a text
MaxTextLen == 3

RECURSIVE TextsOfAtMost(_)
TextsOfAtMost(n) ==
    IF n = 0 THEN {<<>>}
    ELSE LET shorter == TextsOfAtMost(n - 1)
         IN shorter \cup {Append(t, c) : t \in shorter, c \in TextAlphabet}

\* displayEmailContent for the first file of a session, read as one of
\* these texts
displayText ==
    \E content \in TextsOfAtMost(MaxTextLen) :
        /\ IsNull(originalContent)
        /\ displayEmailContent(content)
        /\ lastCall' = Call("displayEmailContent", 0, "", FALSE)
        /\ UNCHANGED <<scanRecord, targetsStale>>
        /\ UNCHANGED <<ruleVars, passVars, scored, storageVars, clipboard>>

\* the bytes of the buffers read: NUL, tab, newline, "A" and 0xFF
ByteAlphabet == {0, 9, 10, 65, 255}
\* most bytes in a buffer
MaxBytes == 3

RECURSIVE BuffersOfAtMost(_)
BuffersOfAtMost(n) ==
    IF n = 0 THEN {<<>>}
    ELSE LET shorter == BuffersOfAtMost(n - 1)
         IN shorter \cup {Append(b, c) : b \in shorter, c \in ByteAlphabet}

\* three letters and seven NUL bytes: 30% of the text, read as utf-8
BufferThreeOfTen == <<65, 65, 65, 0, 0, 0, 0, 0, 0, 0>>

\* file.name of the buffers
BufferName == <<"a", ".", "b", "i", "n">>

\* displayEmailContent for the first file of a session, read by
\* readAsArrayBuffer as one of these buffers
displayBuffer ==
    \E bytes \in BuffersOfAtMost(MaxBytes) \cup {BufferThreeOfTen} :
        /\ IsNull(originalContent)
        /\ originalContent' = Some([byteLength |-> Len(bytes), bytes |-> bytes])
        /\ rawContent' = Some(convertBufferToDisplayableText(bytes, BufferName))
        /\ lastCall' = Call("displayEmailContent", 0, "", FALSE)
        /\ UNCHANGED <<detectedTargets, dragState, scanRecord, targetsStale>>
        /\ UNCHANGED <<ruleVars, passVars, scored, storageVars, clipboard>>

\* the buffers normalized for display
SpecBuffer == Init /\ [][displayBuffer]_vars

\* the texts normalized for display
SpecConvert == Init /\ [][displayText]_vars

\* a session before its first file or with a file shown
InitPass ==
    /\ \/ originalContent = Null /\ rawContent = Null
       \/ \E f \in Files :
              /\ originalContent = Some(f)
              /\ rawContent = Some(convertContentToDisplayableText(f))
    /\ detectedTargets = <<>>
    /\ dragState = Null
    /\ lastCall = Call("constructor", 0, "", FALSE)
    /\ scanRecord = Null
    /\ targetsStale = FALSE
    /\ InitRuleVars
    /\ activePass = Null
    /\ exported = Null
    /\ scored = Null
    /\ InitStorage
    /\ clipboard = Null

\* passes taken statement by statement among the handlers that read the
\* registry
NextPass ==
    \/ beginPass
    \/ scanStep
    \/ endPass
    \/ exportTargets
    \/ dispatchTargetMapping

SpecPass == InitPass /\ [][NextPass]_vars

\* ------------------------------------------------------------------------
\* Properties

\* the candidates of a pass: every match of the catalog, in scan order
RECURSIVE CandidatesOf(_, _, _)
CandidatesOf(content, f, j) ==
    IF f > Len(patternRules) THEN <<>>
    ELSE IF j > Len(patternRules[f].patterns) THEN CandidatesOf(content, f + 1, 1)
    ELSE matchAll(patternRules[f].patterns[j], content, 0)
         \o CandidatesOf(content, f, j + 1)

DocLength == IF IsNull(rawContent) THEN 0 ELSE Len(Val(rawContent))

\* C1: after a detection pass no two targets of the registry overlap, where
\* a and b overlap unless a ends at or before the start of b or b ends at or
\* before the start of a.
C1_NonOverlapAfterDetection ==
    lastCall.op = "regenerateTargets" =>
        \A i, j \in 1..Len(detectedTargets) :
            i # j =>
                \/ detectedTargets[i].endPos <= detectedTargets[j].startPos
                \/ detectedTargets[j].endPos <= detectedTargets[i].startPos

\* a pass that accepted several targets and rejected a candidate
C1_Witness ==
    /\ lastCall.op = "regenerateTargets"
    /\ Len(detectedTargets) >= 2
    /\ Len(CandidatesOf(Val(rawContent), 1, 1)) > Len(detectedTargets)

\* C2: in every state the targets of the registry are in ascending order of
\* startPos.
C2_SortedByStartPos ==
    \A i, j \in 1..Len(detectedTargets) :
        i < j => detectedTargets[i].startPos <= detectedTargets[j].startPos

\* a registry of several targets, one of them remapped, at the end of a
\* resize that moved the end of a span
C2_Witness ==
    /\ lastCall.op = "handleResizeEnd"
    /\ Len(detectedTargets) >= 2
    /\ ManuallyMapped(detectedTargets)
    /\ \E k \in 1..Len(detectedTargets) :
           detectedTargets[k].endPos # detectedTargets[k].startPos + Len(detectedTargets[k].text)

\* C3: in every state every target has a confidence of at least 0.5 and at
\* most 1.0.
C3_ConfidenceBound ==
    \A k \in 1..Len(detectedTargets) :
        /\ detectedTargets[k].confidence >= 5
        /\ detectedTargets[k].confidence <= 10

\* a reassigned target whose confidence has reached 1.0
C3_Witness ==
    /\ lastCall.op = "updateTargetMapping"
    /\ lastCall.fieldType # "unmapped"
    /\ lastCall.index + 1 <= Len(detectedTargets)
    /\ detectedTargets[lastCall.index + 1].confidence = 10

\* C4: in every state every target satisfies
\* 0 <= startPos < endPos <= length of the current document text.
C4_SpanWithinText ==
    \A k \in 1..Len(detectedTargets) :
        /\ 0 <= detectedTargets[k].startPos
        /\ detectedTargets[k].startPos < detectedTargets[k].endPos
        /\ detectedTargets[k].endPos <= DocLength

\* C5: in every state the text of every target is the part of the current
\* document text from startPos to endPos.
C5_TextIsSpan ==
    \A k \in 1..Len(detectedTargets) :
        /\ ~IsNull(rawContent)
        /\ detectedTargets[k].endPos <= DocLength
        /\ detectedTargets[k].text =
               SubSeq(Val(rawContent), detectedTargets[k].startPos + 1,
                      detectedTargets[k].endPos)

\* C6: a detection pass over a text yields the registry that the recorded
\* earlier pass over the same text yielded, whatever the registry held.
C6_Determinism ==
    (/\ lastCall.op = "regenerateTargets"
     /\ ~lastCall.raised
     /\ ~IsNull(scanRecord)
     /\ Val(scanRecord).content = Val(rawContent))
    => detectedTargets = Val(scanRecord).targets

\* a second pass over the recorded text, made over a registry that held a
\* manually mapped target, and yielding several targets
C6_Witness ==
    /\ lastCall.op = "regenerateTargets"
    /\ lastCall.edited
    /\ ~IsNull(scanRecord)
    /\ Val(scanRecord).repeated
    /\ Val(scanRecord).content = Val(rawContent)
    /\ Len(detectedTargets) >= 2

\* C7: after a re-scan the registry is what a detection pass from an empty
\* registry over the current document leaves, and no target carries a field
\* type or a confidence set by updateTargetMapping.
C7_RescanRebuilds ==
    lastCall.op = "regenerateTargets" =>
        /\ detectedTargets = autoDetectParserTargets(<<>>, rawContent).targets
        /\ ~ManuallyMapped(detectedTargets)
        /\ \A k \in 1..Len(detectedTargets) :
               detectedTargets[k].confidence =
                   calculateConfidence(detectedTargets[k].fieldType, detectedTargets[k].text,
                                       detectedTargets[k].startPos, Val(rawContent))

\* a re-scan of a registry that held a manually mapped target
C7_Witness ==
    /\ lastCall.op = "regenerateTargets"
    /\ lastCall.edited
    /\ ~lastCall.raised
    /\ Len(detectedTargets) >= 2

\* C8: after a file has been loaded the registry holds no target detected
\* from the document it replaced.
C8_NoStaleTargetsAfterLoad ==
    lastCall.op = "processEmailFile" => ~targetsStale

\* C9: a detection pass never raises, and leaves an empty registry when no
\* pattern of the catalog matches.
C9_DetectionNeverRaises ==
    lastCall.op = "regenerateTargets" =>
        /\ ~lastCall.raised
        /\ (CandidatesOf(Val(rawContent), 1, 1) = <<>> => detectedTargets = <<>>)

\* C10: updateTargetMapping(index, newFieldType) on a target of the registry
\* gives it the field type newFieldType, leaves its text, startPos and endPos
\* as they were, leaves every other target as it was, and leaves the length
\* and the order of the registry as they were.
C10_MappingFrame ==
    [][lastCall'.op = "updateTargetMapping" =>
        /\ Len(detectedTargets') = Len(detectedTargets)
        /\ \A k \in 1..Len(detectedTargets) :
               IF k = lastCall'.index + 1
               THEN /\ detectedTargets'[k].fieldType = lastCall'.fieldType
                    /\ detectedTargets'[k].text = detectedTargets[k].text
                    /\ detectedTargets'[k].startPos = detectedTargets[k].startPos
                    /\ detectedTargets'[k].endPos = detectedTargets[k].endPos
               ELSE detectedTargets'[k] = detectedTargets[k]]_vars

\* a resized target reassigned to a field type no pattern detects, in a
\* registry of several targets
C10_Witness ==
    /\ lastCall.op = "updateTargetMapping"
    /\ lastCall.fieldType = "job_number"
    /\ Len(detectedTargets) >= 2
    /\ lastCall.index + 1 <= Len(detectedTargets)
    /\ detectedTargets[lastCall.index + 1].fieldType = "job_number"
    /\ detectedTargets[lastCall.index + 1].endPos
           # detectedTargets[lastCall.index + 1].startPos
             + Len(detectedTargets[lastCall.index + 1].text)

\* lines 74-78: the candidates the matches of one pattern give
AsCandidates(fieldType, content, ms) ==
    [k \in 1..Len(ms) |->
        LET targetText == trim(substring(content, ms[k].index, ms[k].end))
        IN [fieldType |-> fieldType, text |-> targetText, startPos |-> ms[k].index,
            endPos |-> ms[k].index + Len(targetText)]]

\* the candidates of a pass in the order the catalog is walked: field types
\* in catalog order, their patterns in order, the matches left to right
RECURSIVE ScannedCandidates(_, _, _)
ScannedCandidates(content, f, j) ==
    IF f > Len(patternRules) THEN <<>>
    ELSE IF j > Len(patternRules[f].patterns) THEN ScannedCandidates(content, f + 1, 1)
    ELSE AsCandidates(patternRules[f].fieldType, content,
                      matchAll(patternRules[f].patterns[j], content, 0))
         \o ScannedCandidates(content, f, j + 1)

\* the registry holds a target made of candidate c, with the confidence
\* the candidate scores
Accepted(c) ==
    \E k \in 1..Len(detectedTargets) :
        /\ detectedTargets[k].fieldType = c.fieldType
        /\ detectedTargets[k].text = c.text
        /\ detectedTargets[k].startPos = c.startPos
        /\ detectedTargets[k].endPos = c.endPos
        /\ detectedTargets[k].confidence =
               calculateConfidence(c.fieldType, c.text, c.startPos, Val(rawContent))

\* C11: after a detection pass every target is a candidate as it was scanned,
\* and a candidate is in the registry exactly when no other candidate scanned
\* before it (field types in catalog order, patterns in order, matches left
\* to right) that overlaps it is in the registry, whatever the two score.
C11_FirstAcceptedWins ==
    (lastCall.op = "regenerateTargets" /\ ~lastCall.raised) =>
        LET cs == ScannedCandidates(Val(rawContent), 1, 1)
        IN /\ \A k \in 1..Len(detectedTargets) :
                  \E n \in 1..Len(cs) :
                      /\ Accepted(cs[n])
                      /\ detectedTargets[k].fieldType = cs[n].fieldType
                      /\ detectedTargets[k].startPos = cs[n].startPos
                      /\ detectedTargets[k].endPos = cs[n].endPos
           /\ \A n \in 1..Len(cs) :
                  Accepted(cs[n]) <=>
                      ~\E m \in 1..(n - 1) :
                          /\ cs[m] # cs[n]
                          /\ overlaps(cs[m], cs[n])
                          /\ Accepted(cs[m])

\* a pass that accepted a candidate and discarded one scanned later that
\* overlaps it and scores higher
C11_Witness ==
    /\ lastCall.op = "regenerateTargets"
    /\ ~lastCall.raised
    /\ LET cs == ScannedCandidates(Val(rawContent), 1, 1)
       IN \E n \in 1..Len(cs) : \E m \in 1..(n - 1) :
              /\ overlaps(cs[m], cs[n])
              /\ Accepted(cs[m])
              /\ ~Accepted(cs[n])
              /\ calculateConfidence(cs[n].fieldType, cs[n].text, cs[n].startPos, Val(rawContent))
                     > calculateConfidence(cs[m].fieldType, cs[m].text, cs[m].startPos,
                                           Val(rawContent))

\* a regular expression special of the source that no backslash precedes
RECURSIVE BareSpecial(_)
BareSpecial(src) ==
    IF src = <<>> THEN FALSE
    ELSE IF Head(src) = "\\" THEN BareSpecial(SubSeq(src, 3, Len(src)))
    ELSE Head(src) \in {".", "*", "+", "?", "^", "$", "{", "}", "(", ")", "|", "[", "]"}
         \/ BareSpecial(Tail(src))

\* generateRule produced a rule of the strategy ruleType
Generated(ruleType) ==
    /\ lastRuleCall.op = "generateRule"
    /\ ~IsNull(lastRuleCall.rule)
    /\ Val(lastRuleCall.rule).type = ruleType

\* C12: a regex rule generated from a selected text of the document has
\* every regular expression special of the text escaped, and its search, run
\* on the document, returns the selected text.
C12_RegexRoundTrip ==
    Generated("regex") =>
        /\ ~BareSpecial(Val(lastRuleCall.rule).pattern)
        /\ RunRegexRule(Val(lastRuleCall.rule), Val(rawContent)) = Some(lastRuleCall.test)

\* C13: a coordinate rule generated from a recorded selection, run on the
\* document, returns the stored selected text.
C13_CoordinateRoundTrip ==
    (selectedText # <<>> /\ ~IsNull(selectionCoords)) =>
        RunCoordinateRule(generateCoordinateRule(<<"s", "i", "t", "e">>, selectedText,
                                                 selectionCoords),
                          Val(rawContent)) = selectedText

\* C14: generateRule with a strategy name that is none of the four, a text
\* selected and a name given, reports an error, produces no rule and leaves
\* the rule output as it was.
C14_UnknownStrategyFails ==
    [][(/\ lastRuleCall'.op = "generateRule"
        /\ lastRuleCall'.ruleType \notin {"regex", "coordinates", "css", "xpath"}
        /\ trim(selectedText) # <<>>
        /\ trim(lastRuleCall'.ruleName) # <<>>)
       => /\ (lastRuleCall'.reported # "" \/ lastRuleCall'.raised)
          /\ IsNull(lastRuleCall'.rule)
          /\ ruleOutput' = ruleOutput]_vars

\* C15: generateRule while the selected text or the rule name is empty or
\* only white space reports the failure, produces no rule and leaves the
\* rule output and the workflow steps as they were.
C15_EmptyInputFails ==
    [][(/\ lastRuleCall'.op = "generateRule"
        /\ (trim(selectedText) = <<>> \/ trim(lastRuleCall'.ruleName) = <<>>))
       => /\ lastRuleCall'.reported # ""
          /\ IsNull(lastRuleCall'.rule)
          /\ ruleOutput' = ruleOutput
          /\ workflow' = workflow]_vars

\* generateRule refused a name of blanks while a text was selected and the
\* rule output held a rule
C15_Witness ==
    /\ lastRuleCall.op = "generateRule"
    /\ lastRuleCall.ruleName = <<" ">>
    /\ lastRuleCall.test # <<>>
    /\ lastRuleCall.reported = "Please enter a rule name."
    /\ RulesIn(ruleOutput) # {}

\* C16: the text shown for a file read as a string is the text read without
\* its characters of code 0x00, 0x01-0x08, 0x0B, 0x0C, 0x0E-0x1F and 0x7F, every
\* other character (newline, tab and carriage return among them) kept in
\* its place; normalizing the text shown again leaves it as it is.
C16_StripsControlsOnly ==
    (~IsNull(originalContent) /\ ~IsNull(rawContent)) =>
        LET Code(c) == IF c \in DOMAIN ControlCode THEN ControlCode[c] ELSE 32
            Kept(c) == ~(\/ Code(c) = 0
                         \/ (1 <= Code(c) /\ Code(c) <= 8)
                         \/ Code(c) = 11
                         \/ Code(c) = 12
                         \/ (14 <= Code(c) /\ Code(c) <= 31)
                         \/ Code(c) = 127)
        IN /\ Val(rawContent) = SelectSeq(Val(originalContent), Kept)
           /\ convertContentToDisplayableText(Val(rawContent)) = Val(rawContent)

\* a text with a NUL, another stripped control character and a newline,
\* a tab or a carriage return, of which the last is kept
C16_Witness ==
    /\ lastCall.op = "displayEmailContent"
    /\ \E i, j, k \in 1..Len(Val(originalContent)) :
           /\ Val(originalContent)[i] = "NUL"
           /\ Val(originalContent)[j] \in {"SOH", "BS", "VT", "FF", "SO", "US", "DEL"}
           /\ Val(originalContent)[k] \in {"\n", "\t", "\r"}
    /\ Len(Val(rawContent)) = 1
    /\ Val(rawContent)[1] \in {"\n", "\t", "\r"}

\* C17: what a reader of the registry gets is the whole registry as it was
\* before the running pass began, until the pass is complete and it is the
\* whole new registry, never an emptied or partly rebuilt one; and a pass
\* that raises leaves the registry as it found it.
C17_AtomicSwap ==
    /\ [](~IsNull(exported) =>
             Val(exported).detectedTargets = ExportedTargets(Val(exported).published))
    /\ [][(lastCall'.op = "regenerateTargets" /\ lastCall'.raised)
          => detectedTargets' = detectedTargets]_vars

\* a pass that has emptied a registry of several targets, one of them
\* manually mapped, and has rebuilt part of it, after the old registry was
\* exported
C17_Witness ==
    /\ ~IsNull(activePass)
    /\ Len(Val(activePass).old) >= 2
    /\ ManuallyMapped(Val(activePass).old)
    /\ Len(detectedTargets) = 1
    /\ ~IsNull(exported)
    /\ Val(exported).detectedTargets = ExportedTargets(Val(activePass).old)

\* C18: when a drag has ended (handleResizeEnd, which sets the span of the
\* dragged target from its overlay), no two targets of the registry overlap.
C18_ResizeKeepsNonOverlap ==
    lastCall.op = "handleResizeEnd" =>
        \A i \in 1..Len(detectedTargets) : \A j \in (i + 1)..Len(detectedTargets) :
            ~overlaps(detectedTargets[i], detectedTargets[j])

\* C19: updateTargetMapping never lowers the confidence of a target: a
\* reassignment to a field type sets it to min(1.0, confidence + 0.2), one to
\* "unmapped" leaves it as it is, and however often it is repeated the
\* confidence stays at most 1.0; no other target's confidence changes.
C19_ReassignNeverLowers ==
    [][lastCall'.op = "updateTargetMapping" =>
        /\ Len(detectedTargets') = Len(detectedTargets)
        /\ \A k \in 1..Len(detectedTargets) :
               /\ detectedTargets'[k].confidence >= detectedTargets[k].confidence
               /\ detectedTargets'[k].confidence <= 10
               /\ detectedTargets'[k].confidence =
                      IF k = lastCall'.index + 1 /\ lastCall'.fieldType # "unmapped"
                      THEN IF detectedTargets[k].confidence + 2 <= 10
                           THEN detectedTargets[k].confidence + 2
                           ELSE 10
                      ELSE detectedTargets[k].confidence]_vars

\* a repeated reassignment of the target "123456", detected at 0.9, which
\* stands at 1.0
C19_Witness ==
    /\ lastCall.op = "updateTargetMapping"
    /\ lastCall.edited
    /\ lastCall.fieldType = "job_number"
    /\ lastCall.index + 1 <= Len(detectedTargets)
    /\ detectedTargets[lastCall.index + 1].text = <<"1", "2", "3", "4", "5", "6">>
    /\ detectedTargets[lastCall.index + 1].fieldType = "job_number"
    /\ detectedTargets[lastCall.index + 1].confidence = 10

\* C20: the Number calculateConfidence returns is the value of the formula
\* min(1.0, 0.5 + type bonuses + context bonus + position bonus), that is, the
\* Number nearest that value; a device_id "1234567" half way through the
\* content scores 1.0.
C20_ScoreEqualsFormula ==
    ~IsNull(scored) =>
        LET call == Val(scored)
        IN call.confidence =
               Nearest(calculateConfidence(call.fieldType, call.text, call.position,
                                           call.content), 0)

wSEA124 == <<"S", "E", "A", "1", "2", "4">>
wP296563983 == <<"P", "2", "9", "6", "5", "6", "3", "9", "8", "3">>

\* C21: after a detection pass over the service call line the registry holds
\* "SEA124" as a building_code target, and the score of its type, before the
\* context and position bonuses, is 0.5 + 0.1 = 0.6.
C21_SiteCodeScore ==
    (rawContent = Some(FileServiceCall) /\ lastCall.op = "regenerateTargets") =>
        \E k \in 1..Len(detectedTargets) :
            /\ detectedTargets[k].text = wSEA124
            /\ detectedTargets[k].fieldType = "building_code"
            /\ BaseConfidence + TypeBonus(detectedTargets[k].fieldType,
                                          detectedTargets[k].text) = 6

\* C22: after a detection pass over the service call line the registry holds
\* "P296563983" as a device_id target that ends before "-13", and the score
\* of its type is 0.5 + 0.2 = 0.7, without the bonus of a V or P before digits.
C22_DeviceIdScore ==
    (rawContent = Some(FileServiceCall) /\ lastCall.op = "regenerateTargets") =>
        \E k \in 1..Len(detectedTargets) :
            /\ detectedTargets[k].text = wP296563983
            /\ detectedTargets[k].fieldType = "device_id"
            /\ detectedTargets[k].endPos = detectedTargets[k].startPos + 10
            /\ substring(Val(rawContent), detectedTargets[k].endPos,
                         detectedTargets[k].endPos + 3) = <<"-", "1", "3">>
            /\ BaseConfidence + TypeBonus(detectedTargets[k].fieldType,
                                          detectedTargets[k].text) = 7

\* C23: after a detection pass every target that starts at "Device Offline" or
\* "Line Error" is a job_trouble_description, and every job_name target starts
\* at "Service Call" or "Alarm".
C23_PhrasesByKeyword ==
    lastCall.op = "regenerateTargets" =>
        \A k \in 1..Len(detectedTargets) :
            LET t == detectedTargets[k]
            IN /\ (HasAt(t.text, wDeviceOffline, 0) \/ HasAt(t.text, wLineError, 0))
                      => t.fieldType = "job_trouble_description"
               /\ t.fieldType = "job_name"
                      => (HasAt(t.text, wServiceCall, 0) \/ HasAt(t.text, wAlarm, 0))

\* the rule generateRule has just produced is of the type
Produced(ruleType) ==
    /\ lastRuleCall.op = "generateRule"
    /\ ~IsNull(lastRuleCall.rule)
    /\ Val(lastRuleCall.rule).type = ruleType

\* C24: an xpath rule applied to a document returns the first line that
\* contains the selected text, with an occurrence of the selected text
\* removed and the rest trimmed, and the empty string when no line contains it.
C24_AnchoredRule ==
    Produced("xpath") =>
        \A d \in ApplyFiles :
            LET text == lastRuleCall.test
                lines == Lines(d)
                result == RunXPathRule(Val(lastRuleCall.rule), d)
            IN /\ ~IsNull(result)
               /\ IF \E k \in 1..Len(lines) : includes(lines[k], text)
                  THEN \E k \in 1..Len(lines) :
                           /\ includes(lines[k], text)
                           /\ \A n \in 1..(k - 1) : ~includes(lines[n], text)
                           /\ \E at \in 0..Len(lines[k]) :
                                  /\ HasAt(lines[k], text, at)
                                  /\ Val(result) =
                                         trim(substring(lines[k], 0, at)
                                              \o substring(lines[k], at + Len(text),
                                                           Len(lines[k])))
                  ELSE Val(result) = <<>>

\* C25: a css rule applied to a document that contains the selected text
\* returns a line of the document that contains the selected text, and
\* applied to a document that does not contain it the empty string.
C25_StructuralRule ==
    Produced("css") =>
        \A d \in ApplyFiles :
            LET text == lastRuleCall.test
                lines == Lines(d)
                result == RunCSSRule(Val(lastRuleCall.rule), d)
            IN /\ ~IsNull(result)
               /\ IF includes(d, text)
                  THEN /\ Val(result) # <<>>
                       /\ includes(Val(result), text)
                       /\ \E k \in 1..Len(lines) : Val(result) \in {lines[k], trim(lines[k])}
                  ELSE Val(result) = <<>>

\* the printable characters: ASCII 0x20-0x7E, newline and tab
Printable(decoded) ==
    Cardinality({k \in 1..Len(decoded) : decoded[k] \in (32..126) \cup {9, 10}})

\* at least 30% of a decoded text is printable
Qualifies(decoded) == decoded # <<>> /\ 10 * Printable(decoded) >= 3 * Len(decoded)

\* C26: the text shown for a buffer is the text decoded by the first of
\* utf-8, iso-8859-1, windows-1252, utf-16le, utf-16be of which at least 30%
\* are printable characters (exactly 30% included), with the control
\* characters removed, and the hex dump of the buffer when there is none.
C26_FirstQualifyingEncoding ==
    (~IsNull(originalContent) /\ lastCall.op = "displayEmailContent") =>
        LET bytes == Val(originalContent).bytes
            qualifying == {e \in 1..Len(encodings) : Qualifies(decode(encodings[e], bytes))}
        IN /\ ~IsNull(rawContent)
           /\ Val(rawContent) =
                  IF qualifying = {} THEN convertContentToHex(bytes, BufferName)
                  ELSE LET first == CHOOSE e \in qualifying : \A n \in qualifying : e <= n
                       IN convertContentToDisplayableText(
                              TextOfCodes(decode(encodings[first], bytes)))

\* C27: the devices store never holds two records of one building_id and
\* one device_name, however the steps of the save calls interleave.
C27_DeviceNamesUnique ==
    \A d \in db.devices : \A o \in db.devices :
        (d.building_id = o.building_id /\ d.device_name = o.device_name) => d = o

\* the store holds what the claim names as the ground to reject the save
Rejectable(op, data) ==
    IF op = "saveBuilding"
    THEN \E b \in db.buildings : /\ b.building_name = data.building_name
                                 /\ b.building_id # data.building_id
    ELSE IF op = "saveTicket"
    THEN \E t \in db.tickets : /\ t.ticket_number = data.ticket_number
                               /\ t.ticket_id # data.ticket_id
    ELSE IF op = "saveDevice"
    THEN \/ \A b \in db.buildings : b.building_id # data.building_id
         \/ \E d \in db.devices : /\ d.building_id = data.building_id
                                  /\ d.device_name = data.device_name
                                  /\ d.device_id # data.device_id
    ELSE \A t \in db.tickets : t.ticket_id # data.ticket_id

\* C28: a save that settles while the stores hold the ground to reject it
\* (a name or number held by a different record, a building or ticket that
\* does not exist) throws, and the stores are as they were.
C28_RejectedSaveChangesNothing ==
    [][\A c \in 1..MaxCalls :
           (/\ ~IsNull(calls[c])
            /\ IsNull(calls'[c])
            /\ Rejectable(Val(calls[c]).op, Val(calls[c]).data))
           => (Val(lastSave').raised /\ db' = db)]_vars

\* the candidates of cs from the k-th on that overlap none kept before them,
\* added to kept: no score is looked at
RECURSIVE KeptByOverlapAlone(_, _, _)
KeptByOverlapAlone(kept, cs, k) ==
    IF k > Len(cs) THEN kept
    ELSE IF \E t \in kept : overlaps(t, cs[k])
    THEN KeptByOverlapAlone(kept, cs, k + 1)
    ELSE KeptByOverlapAlone(kept \cup {cs[k]}, cs, k + 1)

\* the registry as candidates: what was matched and where
RegistryAsCandidates ==
    {[fieldType |-> detectedTargets[k].fieldType, text |-> detectedTargets[k].text,
      startPos |-> detectedTargets[k].startPos, endPos |-> detectedTargets[k].endPos] :
         k \in 1..Len(detectedTargets)}

\* C29: after a detection pass no scanned candidate scores under the
\* threshold of 0.5, and the registry is exactly the candidates that
\* overlapped no target accepted before them: one target for each.
C29_ThresholdRejectsNothing ==
    (lastCall.op = "regenerateTargets" /\ ~lastCall.raised) =>
        LET cs == ScannedCandidates(Val(rawContent), 1, 1)
            kept == KeptByOverlapAlone({}, cs, 1)
        IN /\ \A n \in 1..Len(cs) :
                  calculateConfidence(cs[n].fieldType, cs[n].text, cs[n].startPos,
                                      Val(rawContent)) >= MinConfidence
           /\ RegistryAsCandidates = kept
           /\ Len(detectedTargets) = Cardinality(kept)

\* a pass whose registry holds a target that scores the threshold and no
\* more, and that left out a candidate for its overlap
C29_Witness ==
    /\ lastCall.op = "regenerateTargets"
    /\ ~lastCall.raised
    /\ \E k \in 1..Len(detectedTargets) : detectedTargets[k].confidence = MinConfidence
    /\ Len(ScannedCandidates(Val(rawContent), 1, 1)) > Len(detectedTargets)

\* C30: when copyRules is called while the rule output holds no generated
\* rule (none was generated, or the output was reset by clearing the
\* selection), it reports that no rule has been generated and the clipboard
\* is as it was.
C30_CopiesOnlyRules ==
    [][(lastRuleCall'.op = "copyRules" /\ RulesIn(ruleOutput) = {}) =>
           /\ lastRuleCall'.reported
                  = "No rules generated yet. Please select text and generate some rules first."
           /\ clipboard' = clipboard]_vars

====
